---- MODULE Spec2Model ----
(***************************************************************************)
(* A model of the accounting bot: the webhook receiver                     *)
(* (src/webhook_receiver.py), the notification router and the sync-flag    *)
(* handlers (src/telegram_bot.py), the date helpers (src/utils.py) and     *)
(* the SQLite store (src/database.py); the settlement and payment ledger   *)
(* of the store, the button handlers of the bot and the button tokens      *)
(* (create_callback_data, parse_callback_data of src/utils.py).            *)
(*                                                                         *)
(* Python values.  None (also JSON null and SQL NULL) is the string        *)
(* "None" in string-typed fields.  A value that is a string or a number    *)
(* or missing is a record with a kind.  Time is counted in half days, so   *)
(* that timedelta.days (a floor) differs from the exact difference.  The   *)
(* text of a button token and of its fields is a sequence of characters.   *)
(***************************************************************************)
EXTENDS Integers, Sequences, FiniteSets, TLC

VARIABLES
    users_snapshot,   \* table users_snapshot: username -> row or NoRow
    sync_status,      \* table sync_status: key -> value or None
    admin_topics,     \* table admin_topics: admin_telegram_id -> row or NoRow
    audit_log,        \* table audit_log: the rows, in insertion order
    sent,             \* the send_message calls that succeeded, in order
    forum_topics,     \* the number of forum topics created so far
    fallback_chat_id, \* telegram_bot.fallback_chat_id (FALLBACK_CHAT_ID)
    req,              \* the POST /webhook request being served, or its answer
    last,             \* what the last loop iteration of receive_webhook did
    settlement_list,  \* table settlement_list: the rows, in id order
    user_prices,      \* table user_prices: username -> price (partial)
    payments,         \* table payments: username -> row (partial)
    clock,            \* the number of timestamps taken so far
    tasks,            \* the calls in progress, by caller: position, locals
    out,              \* what the last ledger call or button press did
    tok               \* a button token: its fields, the token, its decoding

ledgerVars == <<settlement_list, user_prices, payments, clock, tasks, out,
                tok>>

vars == <<users_snapshot, sync_status, admin_topics, audit_log, sent,
          forum_topics, fallback_chat_id, req, last, settlement_list,
          user_prices, payments, clock, tasks, out, tok>>

None == "None"

----------------------------------------------------------------------------
(* Bounds and input sets *)

MaxAudit == 2          \* audit_log rows per behaviour, one event per body
MaxBatch == 3          \* events per webhook body, and per behaviour then

Usernames == {"alice"}
AdminIds == {"111"}
AdminNames == {"adm"}
Statuses == {"active", "on_hold"}
ParentChat == "-100"

NullExpire == [kind |-> "null", t |-> 0, aware |-> FALSE]
BadExpire == [kind |-> "bad", t |-> 0, aware |-> FALSE]
Ts(t, aware) == [kind |-> "ts", t |-> t, aware |-> aware]

\* half days: 13 is 6.5 days, 14 is 7 days, 20 is 10 days
ExpireTicks == {0, 13, 14, 20}
Expires == {NullExpire, BadExpire}
             \cup {Ts(t, TRUE) : t \in ExpireTicks}
             \cup {Ts(t, FALSE) : t \in {0, 14}}

Num(v) == [num |-> TRUE, v |-> v]
NotANumber == [num |-> FALSE, v |-> 0]

NoUser == [present |-> FALSE, status |-> None, expire |-> NullExpire,
           data_limit |-> None]
UserBody(status, expire, data_limit) ==
    [present |-> TRUE, status |-> status, expire |-> expire,
     data_limit |-> data_limit]

ByAbsent == [kind |-> "absent", telegram_id |-> None, username |-> None]
ByNull == [kind |-> "null", telegram_id |-> None, username |-> None]
ByAdmin(id, name) == [kind |-> "obj", telegram_id |-> id, username |-> name]

Event(action, username, user, by, send_at) ==
    [dict |-> TRUE, action |-> action, username |-> username, user |-> user,
     by |-> by, send_at |-> send_at]

\* a batch element that is no JSON object (a number, a string, null, a list)
NonDict == [dict |-> FALSE, action |-> None, username |-> None,
            user |-> NoUser, by |-> ByAbsent, send_at |-> Num(0)]

----------------------------------------------------------------------------
(* src/utils.py *)

\* parse_datetime: None for None and for text no parser accepts
parse_datetime(s) ==
    IF s.kind = "ts" THEN [ok |-> TRUE, t |-> s.t, aware |-> s.aware]
    ELSE [ok |-> FALSE, t |-> 0, aware |-> FALSE]

\* "if not x" on an expire value
Truthy(s) == s.kind # "null"

NoDays == [raised |-> FALSE, some |-> FALSE, v |-> 0]

\* calculate_days_difference: None, or (dt2 - dt1).days, the floor of the
\* duration in days; subtracting an aware and a naive datetime raises
calculate_days_difference(d1, d2) ==
    IF ~Truthy(d1) \/ ~Truthy(d2) THEN NoDays
    ELSE LET dt1 == parse_datetime(d1)
             dt2 == parse_datetime(d2)
         IN IF ~dt1.ok \/ ~dt2.ok THEN NoDays
            ELSE IF dt1.aware # dt2.aware
                 THEN [raised |-> TRUE, some |-> FALSE, v |-> 0]
                 ELSE [raised |-> FALSE, some |-> TRUE,
                       v |-> (dt2.t - dt1.t) \div 2]

NoKey == [action |-> None, username |-> None, send_at |-> 0]

\* generate_event_key: f"{action}_{username}_{int(send_at)}", as its three
\* parts; v is the integer part of a number, which is what int() keeps
generate_event_key(action, username, send_at) ==
    [action |-> action, username |-> username, send_at |-> send_at.v]

----------------------------------------------------------------------------
(* src/database.py.  A store is the record of the tables and of the        *)
(* chat-side effects, threaded through one handler.                        *)

NoRow == [present |-> FALSE, status |-> None, expire |-> NullExpire]
NoThread == [some |-> FALSE, id |-> 0]
Thread(id) == [some |-> TRUE, id |-> id]
NoTopic == [present |-> FALSE, admin_username |-> None, chat_id |-> None,
            topic_id |-> NoThread]

Store == [users_snapshot |-> users_snapshot, sync_status |-> sync_status,
          admin_topics |-> admin_topics, audit_log |-> audit_log,
          sent |-> sent, forum_topics |-> forum_topics]

get_user_snapshot(st, username) == st.users_snapshot[username]

save_user_snapshot_keep_expire(st, username, status, expire) ==
    [st EXCEPT !.users_snapshot[username] =
        [present |-> TRUE, status |-> status,
         expire |-> IF @.present THEN @.expire ELSE expire]]

save_user_snapshot_keep_status(st, username, status, expire) ==
    [st EXCEPT !.users_snapshot[username] =
        [present |-> TRUE,
         status |-> IF @.present THEN @.status ELSE status,
         expire |-> expire]]

\* save_user_snapshot: INSERT OR REPLACE keyed by username
save_user_snapshot(st, username, status, expire) ==
    [st EXCEPT !.users_snapshot[username] =
        [present |-> TRUE, status |-> status, expire |-> expire]]

\* users_snapshot.status is TEXT NOT NULL
snapshot_write_fails(status, fault) ==
    status = None \/ fault = "save_user_snapshot"

get_admin_topic(st, id) == st.admin_topics[id]

set_admin_topic(st, id, name, chat_id, topic_id) ==
    [st EXCEPT !.admin_topics[id] =
        [present |-> TRUE, admin_username |-> name, chat_id |-> chat_id,
         topic_id |-> topic_id]]

log_audit(st, log_type, username, admin_telegram_id, actor_telegram_id) ==
    [st EXCEPT !.audit_log = Append(@,
        [type |-> log_type, username |-> username,
         admin_telegram_id |-> admin_telegram_id,
         actor_telegram_id |-> actor_telegram_id])]

get_sync_status_at_start(st, key) == None

get_sync_status(st, key) == st.sync_status[key]

set_sync_status(st, key, value) == [st EXCEPT !.sync_status[key] = value]

----------------------------------------------------------------------------
(* src/telegram_bot.py: the notification router *)

\* "if not x" on a chat id: None and "" are falsy
HasChat(c) == c # None /\ c # ""

fallback_topic_id == NoThread      \* FALLBACK_TOPIC_ID is not set

auto_register_admin_resets_topic(st, id, name, target_chat_id, fault) ==
    LET existing == get_admin_topic(st, id)
        created == HasChat(target_chat_id) /\ fault # "create_forum_topic"
        st1 == IF created THEN [st EXCEPT !.forum_topics = @ + 1] ELSE st
        topic == IF created THEN Thread(st1.forum_topics) ELSE NoThread
    IN IF existing.present /\ existing.admin_username = name
       THEN [st |-> st, chat_id |-> existing.chat_id,
             topic_id |-> existing.topic_id]
       ELSE [st |-> set_admin_topic(st1, id, name,
                        IF HasChat(target_chat_id) THEN target_chat_id
                        ELSE "", topic),
             chat_id |-> target_chat_id, topic_id |-> topic]

auto_register_admin_drops_failed(st, id, name, target_chat_id, fault) ==
    LET existing == get_admin_topic(st, id) IN
    IF existing.present
    THEN [st |-> IF existing.admin_username # name
                 THEN set_admin_topic(st, id, name, existing.chat_id,
                                      existing.topic_id)
                 ELSE st,
          chat_id |-> existing.chat_id, topic_id |-> existing.topic_id]
    ELSE IF HasChat(target_chat_id) /\ fault # "create_forum_topic"
    THEN LET st1 == [st EXCEPT !.forum_topics = @ + 1]
         IN [st |-> set_admin_topic(st1, id, name, target_chat_id,
                                    Thread(st1.forum_topics)),
             chat_id |-> target_chat_id,
             topic_id |-> Thread(st1.forum_topics)]
    ELSE [st |-> st, chat_id |-> target_chat_id, topic_id |-> NoThread]

\* auto_register_admin: [st, chat_id, topic_id]; fault = "create_forum_topic"
\* makes bot.create_forum_topic raise
auto_register_admin(st, id, name, target_chat_id, fault) ==
    LET existing == get_admin_topic(st, id) IN
    IF existing.present
    THEN [st |-> IF existing.admin_username # name
                 THEN set_admin_topic(st, id, name, existing.chat_id,
                                      existing.topic_id)
                 ELSE st,
          chat_id |-> existing.chat_id, topic_id |-> existing.topic_id]
    ELSE LET created == HasChat(target_chat_id)
                          /\ fault # "create_forum_topic"
             st1 == IF created
                    THEN [st EXCEPT !.forum_topics = @ + 1] ELSE st
             topic == IF created THEN Thread(st1.forum_topics) ELSE NoThread
         IN [st |-> set_admin_topic(st1, id, name,
                        IF HasChat(target_chat_id) THEN target_chat_id
                        ELSE "", topic),
             chat_id |-> target_chat_id, topic_id |-> topic]

send_to_admin_topic_prefers_fallback(st, id, name, username, event_key, cfg_chat, fault) ==
    LET reg == auto_register_admin(st, id, name, cfg_chat, fault)
        chat_id == IF HasChat(cfg_chat) THEN cfg_chat ELSE reg.chat_id
        topic_id == IF HasChat(cfg_chat) THEN fallback_topic_id
                    ELSE reg.topic_id
    IN IF ~HasChat(chat_id) \/ fault = "send_message" THEN reg.st
       ELSE [reg.st EXCEPT !.sent = Append(@,
                [chat_id |-> chat_id, topic_id |-> topic_id,
                 username |-> username, admin_telegram_id |-> id,
                 event_key |-> event_key])]

\* send_to_admin_topic: the store afterwards; nothing it calls raises to
\* the caller; fault = "send_message" makes bot.send_message raise
send_to_admin_topic(st, id, name, username, event_key, cfg_chat, fault) ==
    LET reg == auto_register_admin(st, id, name, cfg_chat, fault)
        chat_id == IF HasChat(reg.chat_id) THEN reg.chat_id ELSE cfg_chat
        topic_id == IF HasChat(reg.chat_id) THEN reg.topic_id
                    ELSE fallback_topic_id
    IN IF ~HasChat(chat_id) \/ fault = "send_message" THEN reg.st
       ELSE [reg.st EXCEPT !.sent = Append(@,
                [chat_id |-> chat_id, topic_id |-> topic_id,
                 username |-> username, admin_telegram_id |-> id,
                 event_key |-> event_key])]

----------------------------------------------------------------------------
(* src/webhook_receiver.py *)

NoReason == [tag |-> "", days |-> 0]
ExpireExtended(n) == [tag |-> "expire_extended", days |-> n]
StatusToOnHold == [tag |-> "status_to_on_hold", days |-> 0]

\* What one call of process_webhook_event did: the store afterwards,
\* whether it raised, where it returned, the decision (send, reason, key),
\* the two conditions of handle_user_updated, whether send_to_admin_topic
\* was called, and the store calls in order.
Result(st, raised, outcome, send, reason, key, a, b, routed, trace) ==
    [st |-> st, raised |-> raised, outcome |-> outcome, send |-> send,
     reason |-> reason, key |-> key, cond_a |-> a, cond_b |-> b,
     routed |-> routed, trace |-> trace]

Raised(st, trace) ==
    Result(st, TRUE, "raised", FALSE, NoReason, NoKey, FALSE, FALSE, FALSE,
           trace)

Returned(st, outcome, trace) ==
    Result(st, FALSE, outcome, FALSE, NoReason, NoKey, FALSE, FALSE, FALSE,
           trace)

\* by_data.get('username', 'unknown')
ActorName(by) == IF by.username = None THEN "unknown" ELSE by.username

\* create_user_created_message raises on data_limit = None (None > 0) and
\* on a send_at that datetime.fromtimestamp rejects
created_message_raises(ev) == ev.user.data_limit = None \/ ~ev.send_at.num

\* create_user_updated_message raises on a send_at that
\* datetime.fromtimestamp rejects
updated_message_raises(ev) == ~ev.send_at.num

Notify_transport_raises(st, ev, kind, reason, a, b, raises, cfg_chat, fault, trace) ==
    IF raises \/ fault \in {"create_forum_topic", "send_message"}
    THEN Raised(st, trace)
    ELSE LET key == generate_event_key(kind, ev.username, ev.send_at) IN
         IF ev.by.telegram_id # None
         THEN Result(send_to_admin_topic(st, ev.by.telegram_id,
                         ActorName(ev.by), ev.username, key, cfg_chat, fault),
                     FALSE, "sent", TRUE, reason, key, a, b, TRUE,
                     Append(trace, "send_to_admin_topic"))
         ELSE Result(st, FALSE, "sent", TRUE, reason, key, a, b, FALSE, trace)

\* the tail of both handlers: message, key, then the router if the actor
\* has a telegram_id
Notify(st, ev, kind, reason, a, b, raises, cfg_chat, fault, trace) ==
    IF raises THEN Raised(st, trace)
    ELSE LET key == generate_event_key(kind, ev.username, ev.send_at) IN
         IF ev.by.telegram_id # None
         THEN Result(send_to_admin_topic(st, ev.by.telegram_id,
                         ActorName(ev.by), ev.username, key, cfg_chat, fault),
                     FALSE, "sent", TRUE, reason, key, a, b, TRUE,
                     Append(trace, "send_to_admin_topic"))
         ELSE Result(st, FALSE, "sent", TRUE, reason, key, a, b, FALSE, trace)

handle_user_created(st, ev, cfg_chat, fault, trace) ==
    IF snapshot_write_fails(ev.user.status, fault) THEN Raised(st, trace)
    ELSE Notify(save_user_snapshot(st, ev.username, ev.user.status,
                                   ev.user.expire),
                ev, "created", NoReason, FALSE, FALSE,
                created_message_raises(ev), cfg_chat, fault,
                Append(trace, "save_user_snapshot"))

ConditionA_more_than_7(days_diff) ==
    days_diff.some /\ days_diff.v # 0 /\ days_diff.v > 7

\* Condition A of handle_user_updated: "if days_diff and days_diff >= 7"
ConditionA(days_diff) == days_diff.some /\ days_diff.v # 0 /\ days_diff.v >= 7

\* Condition B of handle_user_updated
ConditionB(old_status, new_status) ==
    old_status # "on_hold" /\ new_status = "on_hold"

trigger_reason_first_wins(a, b, days) ==
    IF a THEN ExpireExtended(days) ELSE IF b THEN StatusToOnHold ELSE NoReason

\* trigger_reason after both conditions ran: B assigns after A
trigger_reason(a, b, days) ==
    IF b THEN StatusToOnHold ELSE IF a THEN ExpireExtended(days) ELSE NoReason

old_snapshot_or_default(st, username) ==
    IF get_user_snapshot(st, username).present
    THEN get_user_snapshot(st, username)
    ELSE [present |-> TRUE, status |-> "active", expire |-> NullExpire]

\* old_snapshot of handle_user_updated
old_snapshot_of(st, username) == get_user_snapshot(st, username)

handle_user_updated(st, ev, cfg_chat, fault, trace) ==
    LET old_snapshot == old_snapshot_of(st, ev.username)
        trace1 == Append(trace, "get_user_snapshot")
        new_status == ev.user.status
        new_expire == ev.user.expire
    IN
    IF ~old_snapshot.present
    THEN IF snapshot_write_fails(new_status, fault) THEN Raised(st, trace1)
         ELSE Returned(save_user_snapshot(st, ev.username, new_status,
                                          new_expire),
                       "baseline", Append(trace1, "save_user_snapshot"))
    ELSE
    LET days_diff == calculate_days_difference(old_snapshot.expire, new_expire)
        a == ConditionA(days_diff)
        b == ConditionB(old_snapshot.status, new_status)
        should_send == a \/ b
    IN
    IF days_diff.raised THEN Raised(st, trace1)
    ELSE IF snapshot_write_fails(new_status, fault) THEN Raised(st, trace1)
    ELSE
    LET st1 == save_user_snapshot(st, ev.username, new_status, new_expire)
        trace2 == Append(trace1, "save_user_snapshot")
    IN IF should_send
       THEN Notify(st1, ev, "updated", trigger_reason(a, b, days_diff.v),
                   a, b, updated_message_raises(ev), cfg_chat, fault, trace2)
       ELSE Returned(st1, "skipped", trace2)

\* "if not action or not username or not user_data"
Rejected(ev) ==
    ev.action = None \/ ev.username = None \/ ~ev.user.present

Gated_only_when_false(sync, action) ==
    sync = "false" /\ action = "user_updated"

\* "if sync_status != "true" and action == "user_updated""
Gated(sync, action) == sync # "true" /\ action = "user_updated"

\* process_webhook_event from the gate on
Dispatch(st, ev, cfg_chat, fault, trace) ==
    IF Gated(get_sync_status(st, "initial_sync_complete"), ev.action)
    THEN Returned(st, "gated", trace)
    ELSE IF ev.action = "user_created"
    THEN handle_user_created(st, ev, cfg_chat, fault, trace)
    ELSE IF ev.action = "user_updated"
    THEN handle_user_updated(st, ev, cfg_chat, fault, trace)
    ELSE Returned(st, "ignored", trace)

process_webhook_event_audit_first(st, ev, cfg_chat, fault) ==
    IF ev.by.kind = "null" \/ fault = "log_audit" THEN Raised(st, <<>>)
    ELSE LET st1 == log_audit(st, "webhook_received", ev.username,
                              ev.by.telegram_id, None)
         IN IF Rejected(ev) THEN Returned(st1, "rejected", <<"log_audit">>)
            ELSE Dispatch(st1, ev, cfg_chat, fault,
                          <<"log_audit", "get_sync_status">>)

\* process_webhook_event on a dict: validation, then the audit row (by = null
\* raises at by_data.get, before log_audit is called), then the gate
process_webhook_event(st, ev, cfg_chat, fault) ==
    IF Rejected(ev) THEN Returned(st, "rejected", <<>>)
    ELSE IF ev.by.kind = "null" \/ fault = "log_audit" THEN Raised(st, <<>>)
    ELSE Dispatch(log_audit(st, "webhook_received", ev.username,
                            ev.by.telegram_id, None),
                  ev, cfg_chat, fault, <<"log_audit", "get_sync_status">>)

next_processed_count_always(count, r) == count + 1

\* "processed_count += 1" after process_webhook_event returned
next_processed_count(count, r) == IF r.raised THEN count ELSE count + 1

----------------------------------------------------------------------------
(* The state machine *)

SyncKeys == {"initial_sync_complete", "last_sync"}

NoRequest == [state |-> "none", parsed |-> FALSE, total |-> 0, handled |-> 0,
              processed_count |-> 0, accepted |-> 0, rejected |-> 0,
              http |-> 0]

NoLast == [dict |-> FALSE, action |-> None, username |-> None,
           status |-> None, expire |-> NullExpire, fault |-> "none",
           raised |-> FALSE, outcome |-> "none", send |-> FALSE, reason |-> NoReason,
           key |-> NoKey, cond_a |-> FALSE, cond_b |-> FALSE,
           routed |-> FALSE, trace |-> <<>>]

\* no ledger call or button press yet; no token yet
NoOut == [op |-> "none"]
NoToken == [stage |-> "none"]

Init ==
    /\ users_snapshot = [u \in Usernames |-> NoRow]
    /\ sync_status = [k \in SyncKeys |-> None]
    /\ admin_topics = [a \in AdminIds |-> NoTopic]
    /\ audit_log = <<>>
    /\ sent = <<>>
    /\ forum_topics = 0
    /\ fallback_chat_id \in {None, ParentChat}
    /\ req = NoRequest
    /\ last = NoLast
    /\ settlement_list = <<>>
    /\ user_prices = <<>>
    /\ payments = <<>>
    /\ clock = 0
    /\ tasks = <<>>
    /\ out = NoOut
    /\ tok = NoToken

Tables(st) ==
    /\ users_snapshot' = st.users_snapshot
    /\ sync_status' = st.sync_status
    /\ admin_topics' = st.admin_topics
    /\ audit_log' = st.audit_log
    /\ sent' = st.sent
    /\ forum_topics' = st.forum_topics

\* receive_webhook up to the loop: a body of n events (a single JSON value
\* is wrapped into a list of one); with n = 0 the answer follows at once.
\* accepted and rejected count, for the claims, the events that passed
\* validation and were processed without an exception, and the events that
\* validation rejected.  room bounds the audit_log.
ReceiveWebhook(n, room) ==
    /\ req.state # "running"
    /\ Len(audit_log) + n <= room
    /\ req' = [state |-> IF n = 0 THEN "done" ELSE "running",
               parsed |-> TRUE, total |-> n, handled |-> 0,
               processed_count |-> 0, accepted |-> 0, rejected |-> 0,
               http |-> IF n = 0 THEN 200 ELSE 0]
    /\ UNCHANGED <<users_snapshot, sync_status, admin_topics, audit_log,
                   sent, forum_topics, fallback_chat_id, last>>
    /\ UNCHANGED ledgerVars

\* receive_webhook on a body request.json() cannot parse: HTTP 400
ReceiveUnparseable ==
    /\ req.state # "running"
    /\ req' = [NoRequest EXCEPT !.state = "done", !.http = 400]
    /\ UNCHANGED <<users_snapshot, sync_status, admin_topics, audit_log,
                   sent, forum_topics, fallback_chat_id, last>>
    /\ UNCHANGED ledgerVars

LastOf(el, fault, r) ==
    [dict |-> TRUE, action |-> el.action, username |-> el.username,
     status |-> el.user.status, expire |-> el.user.expire, fault |-> fault,
     raised |-> r.raised, outcome |-> r.outcome, send |-> r.send,
     reason |-> r.reason, key |-> r.key, cond_a |-> r.cond_a,
     cond_b |-> r.cond_b, routed |-> r.routed, trace |-> r.trace]

Answer(r) ==
    IF r.handled = r.total THEN [r EXCEPT !.state = "done", !.http = 200]
    ELSE r

\* One iteration of the loop of receive_webhook.  On an element that is no
\* dict, event.get raises in the try block and again in the except block,
\* which ends the loop and the request with HTTP 400.
ProcessElement(el, fault) ==
    /\ req.state = "running"
    /\ IF ~el.dict
       THEN /\ req' = [req EXCEPT !.state = "done", !.http = 400]
            /\ last' = [NoLast EXCEPT !.raised = TRUE, !.outcome = "raised"]
            /\ UNCHANGED <<users_snapshot, sync_status, admin_topics,
                           audit_log, sent, forum_topics>>
       ELSE LET r == process_webhook_event(Store, el, fallback_chat_id, fault)
            IN /\ Tables(r.st)
               /\ last' = LastOf(el, fault, r)
               /\ req' = Answer([req EXCEPT
                     !.handled = @ + 1,
                     !.processed_count = next_processed_count(@, r),
                     !.accepted = IF r.raised \/ r.outcome = "rejected"
                                  THEN @ ELSE @ + 1,
                     !.rejected = IF r.outcome = "rejected"
                                  THEN @ + 1 ELSE @])
    /\ UNCHANGED fallback_chat_id

ProcessNext(el, fault) == ProcessElement(el, fault) /\ UNCHANGED ledgerVars

\* TelegramBot.enable_sync
enable_sync ==
    /\ get_sync_status(Store, "initial_sync_complete") # "true"
    /\ Tables(set_sync_status(
                set_sync_status(Store, "initial_sync_complete", "true"),
                "last_sync", "stamped"))
    /\ UNCHANGED <<fallback_chat_id, req, last>>
    /\ UNCHANGED ledgerVars

\* TelegramBot.disable_sync
disable_sync ==
    /\ Tables(set_sync_status(Store, "initial_sync_complete", "false"))
    /\ UNCHANGED <<fallback_chat_id, req, last>>
    /\ UNCHANGED ledgerVars

\* TelegramBot.handle_settings_action, action set_toggle_sync
set_toggle_sync ==
    /\ LET current == get_sync_status(Store, "initial_sync_complete")
           new_status == IF current = "true" THEN "false" ELSE "true"
       IN Tables(set_sync_status(Store, "initial_sync_complete", new_status))
    /\ UNCHANGED <<fallback_chat_id, req, last>>
    /\ UNCHANGED ledgerVars

----------------------------------------------------------------------------
(* Inputs *)

Faults == {"none", "log_audit", "save_user_snapshot", "create_forum_topic",
           "send_message"}

TheAdmin == ByAdmin("111", "adm")
Limit == "10737418240"

\* the events that differ in what triage reads: action, status, expire
TriageEvents ==
    {Event(a, u, UserBody(s, e, Limit), TheAdmin, Num(100)) :
        a \in {"user_created", "user_updated"}, u \in Usernames,
        s \in Statuses, e \in Expires}

\* events with one field missing, null or of the wrong type
OddEvents ==
    UNION {
      { Event("user_deleted", u, UserBody(s, Ts(14, TRUE), Limit), TheAdmin, Num(100)),
        Event(None, u, UserBody(s, Ts(14, TRUE), Limit), TheAdmin, Num(100)) }
      \cup
      { Event(a, None, UserBody(s, Ts(14, TRUE), Limit), TheAdmin, Num(100)),
        Event(a, u, NoUser, TheAdmin, Num(100)),
        Event(a, u, UserBody(None, Ts(14, TRUE), Limit), TheAdmin, Num(100)),
        Event(a, u, UserBody(s, Ts(14, TRUE), None), TheAdmin, Num(100)),
        Event(a, u, UserBody(s, Ts(14, TRUE), Limit), ByAbsent, Num(100)),
        Event(a, u, UserBody(s, Ts(14, TRUE), Limit), ByNull, Num(100)),
        Event(a, u, UserBody(s, Ts(14, TRUE), Limit), ByAdmin(None, "adm"), Num(100)),
        Event(a, u, UserBody(s, Ts(14, TRUE), Limit), TheAdmin, NotANumber) }
      : a \in {"user_created", "user_updated"}, u \in Usernames,
        s \in {"on_hold"} }
    \cup {NonDict}

\* the events a store or transport failure is tried on
FaultEvents ==
    {Event(a, u, UserBody("on_hold", Ts(14, TRUE), Limit), TheAdmin, Num(100)) :
        a \in {"user_created", "user_updated"}, u \in Usernames}

Inputs ==
    ((TriageEvents \cup OddEvents) \X {"none"})
    \cup (FaultEvents \X (Faults \ {"none"}))

\* what a batch is made of: two valid events, events that are rejected,
\* that raise, that are no dict, and a failing store write
BatchInputs ==
    (({Event(a, u, UserBody("on_hold", Ts(14, TRUE), Limit), TheAdmin, Num(100)) :
          a \in {"user_created", "user_updated"}, u \in Usernames}
      \cup {Event("user_created", None, UserBody("active", NullExpire, Limit),
                  TheAdmin, Num(100)),
            Event("user_created", "alice", UserBody("active", NullExpire, None),
                  TheAdmin, Num(100)),
            NonDict})
     \X {"none"})
    \cup {<<Event("user_created", "alice",
                  UserBody("active", NullExpire, Limit), TheAdmin, Num(100)),
            "save_user_snapshot">>}

\* webhook bodies of one event
Next ==
    \/ ReceiveWebhook(1, MaxAudit)
    \/ ReceiveUnparseable
    \/ \E i \in Inputs : ProcessNext(i[1], i[2])
    \/ enable_sync
    \/ disable_sync
    \/ set_toggle_sync

Spec == Init /\ [][Next]_vars

\* webhook bodies of up to MaxBatch events
NextBatch ==
    \/ \E n \in 0..MaxBatch : ReceiveWebhook(n, MaxBatch)
    \/ ReceiveUnparseable
    \/ \E i \in BatchInputs : ProcessNext(i[1], i[2])
    \/ enable_sync
    \/ disable_sync
    \/ set_toggle_sync

SpecBatch == Init /\ [][NextBatch]_vars

----------------------------------------------------------------------------
(* src/telegram_bot.py: the admin sync *)

\* an admin of the panel roster: admin.get('username'),
\* admin.get('telegram_id')
RosterAdmin(username, telegram_id) ==
    [username |-> username, telegram_id |-> telegram_id]

\* the counters of one run and the store
SyncCount(st, created_topics, updated_admins, errors) ==
    [st |-> st, created_topics |-> created_topics,
     updated_admins |-> updated_admins, errors |-> errors]

sync_admin_drops_failed(acc, admin, cfg_chat, failing) ==
    LET id == admin.telegram_id
        existing == get_admin_topic(acc.st, id)
    IN IF id = None THEN acc
       ELSE IF existing.present
       THEN IF existing.admin_username # admin.username
            THEN [acc EXCEPT
                    !.st = set_admin_topic(@, id, admin.username,
                               existing.chat_id, existing.topic_id),
                    !.updated_admins = @ + 1]
            ELSE acc
       ELSE IF HasChat(cfg_chat) /\ id \in failing
       THEN [acc EXCEPT !.errors = @ + 1]
       ELSE IF HasChat(cfg_chat)
       THEN LET st1 == [acc.st EXCEPT !.forum_topics = @ + 1]
            IN [acc EXCEPT
                  !.st = set_admin_topic(st1, id, admin.username, cfg_chat,
                                         Thread(st1.forum_topics)),
                  !.created_topics = @ + 1]
       ELSE [acc EXCEPT !.st = set_admin_topic(@, id, admin.username, "",
                                               NoThread)]

sync_admin_always_updates(acc, admin, cfg_chat, failing) ==
    LET id == admin.telegram_id
        existing == get_admin_topic(acc.st, id)
    IN IF id = None THEN acc
       ELSE IF existing.present
       THEN [acc EXCEPT
               !.st = set_admin_topic(@, id, admin.username,
                          existing.chat_id, existing.topic_id),
               !.updated_admins = @ + 1]
       ELSE sync_admin_drops_failed(
               acc, admin, cfg_chat, {})

\* the body of the loop of sync_admins_from_api for one admin of the
\* roster; failing is the set of the admin ids for which
\* bot.create_forum_topic raises
sync_admin(acc, admin, cfg_chat, failing) ==
    LET id == admin.telegram_id
        existing == get_admin_topic(acc.st, id)
    IN IF id = None THEN acc
       ELSE IF existing.present
       THEN IF existing.admin_username # admin.username
            THEN [acc EXCEPT
                    !.st = set_admin_topic(@, id, admin.username,
                               existing.chat_id, existing.topic_id),
                    !.updated_admins = @ + 1]
            ELSE acc
       ELSE IF HasChat(cfg_chat) /\ id \in failing
       THEN [acc EXCEPT
               !.st = set_admin_topic(@, id, admin.username, cfg_chat,
                                      NoThread),
               !.errors = @ + 1]
       ELSE IF HasChat(cfg_chat)
       THEN LET st1 == [acc.st EXCEPT !.forum_topics = @ + 1]
            IN [acc EXCEPT
                  !.st = set_admin_topic(st1, id, admin.username, cfg_chat,
                                         Thread(st1.forum_topics)),
                  !.created_topics = @ + 1]
       ELSE [acc EXCEPT !.st = set_admin_topic(@, id, admin.username, "",
                                               NoThread)]

RECURSIVE sync_admins(_, _, _, _)
\* "for admin in admins"
sync_admins(acc, admins, cfg_chat, failing) ==
    IF admins = <<>> THEN acc
    ELSE sync_admins(sync_admin(acc, Head(admins), cfg_chat, failing),
                     Tail(admins), cfg_chat, failing)

\* what one run of sync_admins_from_api did
SyncRun(r, fetched, completed) ==
    [st |-> r.st, fetched |-> fetched, completed |-> completed,
     created_topics |-> r.created_topics,
     updated_admins |-> r.updated_admins, errors |-> r.errors]

\* TelegramBot.sync_admins_from_api.  api is "none" without an api_client,
\* "down" when test_connection fails, "ok" otherwise; admins is what
\* get_all_admins returns.
sync_admins_from_api(st, api, admins, cfg_chat, failing) ==
    IF api # "ok" THEN SyncRun(SyncCount(st, 0, 0, 0), FALSE, FALSE)
    ELSE IF admins = <<>> THEN SyncRun(SyncCount(st, 0, 0, 0), TRUE, FALSE)
    ELSE LET r == sync_admins(SyncCount(st, 0, 0, 0), admins, cfg_chat,
                              failing)
         IN SyncRun([r EXCEPT !.st =
                        set_sync_status(
                          set_sync_status(@, "initial_sync_complete",
                                          "true"),
                          "last_sync", "stamped")],
                    TRUE, TRUE)

----------------------------------------------------------------------------
(* The admin sync, the router and the gate together *)

MaxSyncAudit == 2      \* audit_log rows per behaviour of SpecRoute

SyncAdminIds == {"111", "222"}
ConfiguredChats == {None, ParentChat}

Adm == RosterAdmin("adm", "111")
AdmRenamed == RosterAdmin("adm2", "111")
Second == RosterAdmin("sec", "222")
NoTelegram == RosterAdmin("ghost", None)

\* what get_all_admins returns: nothing, admins without telegram_id, one
\* admin, two admins, one admin under two names
Rosters ==
    {<<>>, <<NoTelegram>>, <<Adm>>, <<AdmRenamed>>, <<Adm, Second>>,
     <<NoTelegram, Second>>, <<Adm, AdmRenamed>>}

TopicFailures == {{}, {"111"}}

\* the runs: without api_client, with a failing test_connection, and with
\* a roster fetched
SyncRuns ==
    {<<"none", <<>>, {}>>, <<"down", <<>>, {}>>}
    \cup {<<"ok", admins, failing>> :
            admins \in Rosters, failing \in TopicFailures}

\* events of one user by the admin 111 under its two names
SyncEvent(action, admin_username) ==
    Event(action, "alice", UserBody("on_hold", Ts(14, TRUE), Limit),
          ByAdmin("111", admin_username), Num(100))

SyncInputs ==
    {<<SyncEvent("user_created", "adm"), "none">>,
     <<SyncEvent("user_created", "adm2"), "none">>,
     <<SyncEvent("user_updated", "adm"), "none">>,
     <<SyncEvent("user_created", "adm"), "create_forum_topic">>,
     <<SyncEvent("user_created", "adm"), "send_message">>}

\* one run of sync_admins_from_api
SyncAdmins(api, admins, failing) ==
    /\ LET r == sync_admins_from_api(Store, api, admins, fallback_chat_id,
                                     failing)
       IN /\ Tables(r.st)
          /\ out' = [op |-> "sync", api |-> api, admins |-> admins,
                     failing |-> failing, fetched |-> r.fetched,
                     completed |-> r.completed,
                     created_topics |-> r.created_topics,
                     updated_admins |-> r.updated_admins,
                     errors |-> r.errors]
    /\ UNCHANGED <<fallback_chat_id, req, last>>
    /\ UNCHANGED <<settlement_list, user_prices, payments, clock, tasks,
                   tok>>

\* the process started again with another FALLBACK_CHAT_ID; the tables stay
Restart(chat) ==
    /\ req.state # "running"
    /\ chat # fallback_chat_id
    /\ fallback_chat_id' = chat
    /\ req' = NoRequest
    /\ last' = NoLast
    /\ UNCHANGED <<users_snapshot, sync_status, admin_topics, audit_log,
                   sent, forum_topics>>
    /\ UNCHANGED ledgerVars

InitSync ==
    /\ users_snapshot = [u \in Usernames |-> NoRow]
    /\ sync_status = [k \in SyncKeys |-> None]
    /\ admin_topics = [a \in SyncAdminIds |-> NoTopic]
    /\ audit_log = <<>>
    /\ sent = <<>>
    /\ forum_topics = 0
    /\ fallback_chat_id \in ConfiguredChats
    /\ req = NoRequest
    /\ last = NoLast
    /\ settlement_list = <<>>
    /\ user_prices = <<>>
    /\ payments = <<>>
    /\ clock = 0
    /\ tasks = <<>>
    /\ out = NoOut
    /\ tok = NoToken

\* runs of the admin sync, restarts and the sync flag handlers
NextSync ==
    \/ \E run \in SyncRuns : SyncAdmins(run[1], run[2], run[3])
    \/ \E chat \in ConfiguredChats : Restart(chat)
    \/ enable_sync
    \/ disable_sync
    \/ set_toggle_sync

SpecSync == InitSync /\ [][NextSync]_vars

\* the runs of the admin sync that webhook events are interleaved with
RouteSyncRuns ==
    {<<"ok", <<>>, {}>>, <<"ok", <<Adm>>, {}>>,
     <<"ok", <<AdmRenamed, Second>>, {"111"}>>}

\* webhook bodies of up to MaxSyncAudit events with all of the above
NextRoute ==
    \/ \E n \in 1..MaxSyncAudit : ReceiveWebhook(n, MaxSyncAudit)
    \/ \E i \in SyncInputs : ProcessNext(i[1], i[2])
    \/ \E run \in RouteSyncRuns : SyncAdmins(run[1], run[2], run[3])
    \/ \E chat \in ConfiguredChats : Restart(chat)
    \/ enable_sync
    \/ disable_sync
    \/ set_toggle_sync

SpecRoute == InitSync /\ [][NextRoute]_vars

----------------------------------------------------------------------------
(* src/database.py: the settlement ledger *)

LedgerUsers == {"alice", "bob"}
LedgerAdmins == {"111", "222"}
Actors == {"111", "900"}

\* a row of settlement_list; its id is its position in the table
SettlementRow(username, admin, price, by, at) ==
    [username |-> username, admin_telegram_id |-> admin, price |-> price,
     added_by |-> by, added_at |-> at, is_checked_out |-> 0,
     checked_out_at |-> None, checked_out_by |-> None]

\* "SELECT id ... WHERE username = ? AND admin_telegram_id = ? AND
\* is_checked_out = 0", fetchone: the id of the first such row, 0 for none
active_settlement_id(rows, username, admin) ==
    LET ids == {i \in 1..Len(rows) :
                  /\ rows[i].username = username
                  /\ rows[i].admin_telegram_id = admin
                  /\ rows[i].is_checked_out = 0}
    IN IF ids = {} THEN 0
       ELSE CHOOSE i \in ids : \A j \in ids : i <= j

\* "if existing: UPDATE ... WHERE id = ? else: INSERT", then commit
settlement_write(rows, existing, now, username, admin, price, by) ==
    IF existing # 0
    THEN [rows EXCEPT ![existing].price = price,
                      ![existing].added_by = by,
                      ![existing].added_at = now]
    ELSE Append(rows, SettlementRow(username, admin, price, by, now))

add_to_settlement_always_insert(rows, now, username, admin, price, by) ==
    settlement_write(rows, 0, now, username, admin, price, by)

\* Database.add_to_settlement, run without interruption
add_to_settlement(rows, now, username, admin, price, by) ==
    settlement_write(rows, active_settlement_id(rows, username, admin),
                     now, username, admin, price, by)

checkout_settlement_restamps(rows, now, admin, by) ==
    LET hit == {i \in 1..Len(rows) : rows[i].admin_telegram_id = admin}
    IN [rows |-> [i \in 1..Len(rows) |->
                    IF i \in hit
                    THEN [rows[i] EXCEPT !.is_checked_out = 1,
                                         !.checked_out_at = now,
                                         !.checked_out_by = by]
                    ELSE rows[i]],
        rowcount |-> Cardinality(hit)]

\* Database.checkout_settlement: the table afterwards and cursor.rowcount
checkout_settlement(rows, now, admin, by) ==
    LET hit == {i \in 1..Len(rows) :
                  /\ rows[i].admin_telegram_id = admin
                  /\ rows[i].is_checked_out = 0}
    IN [rows |-> [i \in 1..Len(rows) |->
                    IF i \in hit
                    THEN [rows[i] EXCEPT !.is_checked_out = 1,
                                         !.checked_out_at = now,
                                         !.checked_out_by = by]
                    ELSE rows[i]],
        rowcount |-> Cardinality(hit)]

\* price texts: none, empty, no number, a decimal, zero, negative, positive
PriceTexts == {"", "abc", "10.5", "0", "-5", "100", "250"}

\* int(text): the integer, or ValueError
int_of(text) ==
    CASE text = "0" -> [ok |-> TRUE, v |-> 0]
      [] text = "-5" -> [ok |-> TRUE, v |-> 0 - 5]
      [] text = "100" -> [ok |-> TRUE, v |-> 100]
      [] text = "250" -> [ok |-> TRUE, v |-> 250]
      [] OTHER -> [ok |-> FALSE, v |-> 0]

coalesce_own_price_only(row, prices) ==
    IF row.price # None THEN row.price ELSE "0"

\* "COALESCE(s.price, p.price, '0') ... LEFT JOIN user_prices p"
coalesce_price(row, prices) ==
    IF row.price # None THEN row.price
    ELSE IF row.username \in DOMAIN prices THEN prices[row.username]
    ELSE "0"

NoTotal == [total |-> 0, count |-> 0, items_with_price |-> 0,
            items_without_price |-> 0]

\* the body of the for loop of get_settlement_total on one row
add_row_to_total(acc, text) ==
    LET n == IF text = "" THEN [ok |-> TRUE, v |-> 0] ELSE int_of(text)
    IN IF n.ok /\ n.v > 0
       THEN [acc EXCEPT !.total = @ + n.v, !.items_with_price = @ + 1]
       ELSE [acc EXCEPT !.items_without_price = @ + 1]

RECURSIVE total_of_rows(_, _)
total_of_rows(texts, acc) ==
    IF texts = <<>> THEN acc
    ELSE total_of_rows(Tail(texts), add_row_to_total(acc, Head(texts)))

\* Database.get_settlement_total
get_settlement_total(rows, prices, admin) ==
    LET selected == SelectSeq(rows, LAMBDA r :
                        r.admin_telegram_id = admin /\ r.is_checked_out = 0)
        texts == [i \in 1..Len(selected) |->
                    coalesce_price(selected[i], prices)]
    IN total_of_rows(texts, [NoTotal EXCEPT !.count = Len(selected)])

----------------------------------------------------------------------------
(* The ledger called sequentially *)

MaxClock == 4          \* timestamps taken, that is writes, per behaviour

webVars == <<users_snapshot, sync_status, admin_topics, audit_log, sent,
             forum_topics, fallback_chat_id, req, last>>

\* the store after init_db, FALLBACK_CHAT_ID not set
WebInit ==
    /\ users_snapshot = [u \in Usernames |-> NoRow]
    /\ sync_status = [k \in SyncKeys |-> None]
    /\ admin_topics = [a \in AdminIds |-> NoTopic]
    /\ audit_log = <<>>
    /\ sent = <<>>
    /\ forum_topics = 0
    /\ fallback_chat_id = None
    /\ req = NoRequest
    /\ last = NoLast

\* the add_to_settlement calls: (username, admin, price, added_by)
SettlementAdds ==
    {<<"alice", "111", None, "111">>, <<"alice", "111", "100", "900">>,
     <<"alice", "222", "250", "900">>, <<"bob", "111", "100", "111">>,
     <<"bob", "111", None, "900">>}

AddToSettlement(username, admin, price, by) ==
    /\ clock < MaxClock
    /\ clock' = clock + 1
    /\ settlement_list' = add_to_settlement(settlement_list, clock + 1,
                                            username, admin, price, by)
    /\ out' = [op |-> "add", username |-> username, admin |-> admin,
               price |-> price, by |-> by]
    /\ UNCHANGED <<user_prices, payments, tasks, tok>>
    /\ UNCHANGED webVars

Checkout(admin, by) ==
    /\ clock < MaxClock
    /\ clock' = clock + 1
    /\ LET r == checkout_settlement(settlement_list, clock + 1, admin, by)
       IN /\ settlement_list' = r.rows
          /\ out' = [op |-> "checkout", admin |-> admin, by |-> by,
                     rowcount |-> r.rowcount]
    /\ UNCHANGED <<user_prices, payments, tasks, tok>>
    /\ UNCHANGED webVars

ComputeTotal(admin) ==
    /\ out' = [op |-> "total", admin |-> admin,
               result |-> get_settlement_total(settlement_list, user_prices,
                                               admin)]
    /\ UNCHANGED <<settlement_list, user_prices, payments, clock, tasks,
                   tok>>
    /\ UNCHANGED webVars

NextLedger ==
    \/ \E a \in SettlementAdds : AddToSettlement(a[1], a[2], a[3], a[4])
    \/ \E admin \in LedgerAdmins : Checkout(admin, "900")
    \/ \E admin \in LedgerAdmins : ComputeTotal(admin)

InitLedger ==
    /\ WebInit
    /\ settlement_list = <<>>
    /\ user_prices = <<>>
    /\ payments = <<>>
    /\ clock = 0
    /\ tasks = <<>>
    /\ out = NoOut
    /\ tok = NoToken

SpecLedger == InitLedger /\ [][NextLedger]_vars

----------------------------------------------------------------------------
(* add_to_settlement called concurrently: each call has its own connection, *)
(* and the event loop may switch between the SELECT and the write           *)

Callers == {1, 2}

Idle == [pc |-> "idle"]

\* add_to_settlement up to "existing = await cursor.fetchone()"
AddLookup(c, username, admin, price, by) ==
    /\ tasks[c].pc = "idle"
    /\ clock + Cardinality({d \in Callers : tasks[d].pc = "looked"})
          < MaxClock
    /\ tasks' = [tasks EXCEPT ![c] =
                    [pc |-> "looked", username |-> username,
                     admin |-> admin, price |-> price, by |-> by,
                     existing |-> active_settlement_id(settlement_list,
                                                       username, admin)]]
    /\ UNCHANGED <<settlement_list, user_prices, payments, clock, out, tok>>
    /\ UNCHANGED webVars

\* add_to_settlement from "if existing:" to the commit
AddWrite(c) ==
    /\ tasks[c].pc = "looked"
    /\ clock' = clock + 1
    /\ settlement_list' =
          settlement_write(settlement_list, tasks[c].existing, clock + 1,
                           tasks[c].username, tasks[c].admin,
                           tasks[c].price, tasks[c].by)
    /\ tasks' = [tasks EXCEPT ![c] = Idle]
    /\ out' = [op |-> "add", username |-> tasks[c].username,
               admin |-> tasks[c].admin, price |-> tasks[c].price,
               by |-> tasks[c].by]
    /\ UNCHANGED <<user_prices, payments, tok>>
    /\ UNCHANGED webVars

InitRace ==
    /\ WebInit
    /\ settlement_list = <<>>
    /\ user_prices = <<>>
    /\ payments = <<>>
    /\ clock = 0
    /\ tasks = [c \in Callers |-> Idle]
    /\ out = NoOut
    /\ tok = NoToken

NextRace ==
    \/ \E c \in Callers, a \in SettlementAdds :
          AddLookup(c, a[1], a[2], a[3], a[4])
    \/ \E c \in Callers : AddWrite(c)
    \/ \E admin \in LedgerAdmins : Checkout(admin, "900")

SpecRace == InitRace /\ [][NextRace]_vars

----------------------------------------------------------------------------
(* get_settlement_total on the tables the other calls can leave *)

MaxTotalRows == 2      \* rows of settlement_list when the total is taken

CheckedOut(row, at, by) ==
    [row EXCEPT !.is_checked_out = 1, !.checked_out_at = at,
                !.checked_out_by = by]

TotalRowsIn ==
    {SettlementRow("alice", "111", p, "900", 1) :
        p \in PriceTexts \cup {None}}
    \cup {CheckedOut(SettlementRow("alice", "111", p, "900", 1), 2, "900") :
        p \in {None, "100"}}
    \cup {SettlementRow("bob", "111", p, "111", 1) : p \in {None, "100"}}
    \cup {SettlementRow("alice", "222", "100", "900", 1)}

TotalPricesIn ==
    {<<>>} \cup {[u \in {"alice"} |-> p] : p \in {"250", "10.5", "0", ""}}

InitTotal ==
    /\ WebInit
    /\ settlement_list \in UNION {[1..n -> TotalRowsIn] : n \in 0..MaxTotalRows}
    /\ user_prices \in TotalPricesIn
    /\ payments = <<>>
    /\ clock = 0
    /\ tasks = <<>>
    /\ out = NoOut
    /\ tok = NoToken

NextTotal == \E admin \in LedgerAdmins : ComputeTotal(admin)

SpecTotal == InitTotal /\ [][NextTotal]_vars

----------------------------------------------------------------------------
(* src/utils.py: the button tokens *)

CallbackLimit == 64

\* n times the character c
Text(c, n) == [i \in 1..n |-> c]

ActionPaid == <<"p", "a", "i", "d">>
ActionUnpaid == <<"u", "n">> \o ActionPaid
ActionAddSettlement ==
    <<"a", "d", "d", "_", "s", "e", "t", "t", "l", "e", "m", "e", "n", "t">>
ActionTypes == {ActionPaid, ActionUnpaid, ActionAddSettlement}

\* f"{action_type}:{username}:{admin_telegram_id}:{event_key}"
JoinFields(action_type, username, admin, event_key) ==
    action_type \o <<":">> \o username \o <<":">> \o admin \o <<":">>
       \o event_key

\* create_callback_data: the first CallbackLimit characters of the joined text
create_callback_data(action_type, username, admin, event_key) ==
    LET callback == JoinFields(action_type, username, admin, event_key)
    IN IF Len(callback) > CallbackLimit
       THEN SubSeq(callback, 1, CallbackLimit)
       ELSE callback

\* the position of the first ":" of a text, 0 for none
first_colon(text) ==
    LET at == {i \in 1..Len(text) : text[i] = ":"}
    IN IF at = {} THEN 0 ELSE CHOOSE i \in at : \A j \in at : i <= j

\* text.split(':', maxsplit)
RECURSIVE split(_, _)
split(text, maxsplit) ==
    LET k == first_colon(text)
    IN IF maxsplit = 0 \/ k = 0 THEN <<text>>
       ELSE <<SubSeq(text, 1, k - 1)>>
               \o split(SubSeq(text, k + 1, Len(text)), maxsplit - 1)

NotParsed == [raised |-> TRUE, action_type |-> <<>>, username |-> <<>>,
              admin_telegram_id |-> <<>>, event_key |-> <<>>]

\* parse_callback_data: the four fields, or ValueError
parse_callback_data(callback_data) ==
    LET parts == split(callback_data, 3)
    IN IF Len(parts) # 4 THEN NotParsed
       ELSE [raised |-> FALSE, action_type |-> parts[1],
             username |-> parts[2], admin_telegram_id |-> parts[3],
             event_key |-> parts[4]]

----------------------------------------------------------------------------
(* A token built by create_accounting_keyboard and decoded on the press *)

\* lengths of usernames, of admin ids and of event keys
UsernameLengths == {5, 20, 32, 40, 50}
AdminIdLengths == {3, 10, 16}
EventKeyLengths == {0, 12, 40}

\* the characters of the usernames whose UTF-8 encoding takes two bytes
TwoByteChars == {"é"}

\* len(text.encode("utf-8")): the length of the callback_data on the wire
ByteLen(text) ==
    Len(text) + Cardinality({i \in 1..Len(text) : text[i] \in TwoByteChars})

TokenUsernames == {Text("u", n) : n \in UsernameLengths}
                     \cup {<<"u", ":", "v">>}
                     \cup {Text("é", 5), Text("é", 32)}
TokenAdminIds == {Text("1", n) : n \in AdminIdLengths}
TokenEventKeys == {Text("k", n) : n \in EventKeyLengths}

InitTokens ==
    /\ WebInit
    /\ settlement_list = <<>>
    /\ user_prices = <<>>
    /\ payments = <<>>
    /\ clock = 0
    /\ tasks = <<>>
    /\ out = NoOut
    /\ tok \in {[stage |-> "fields", action_type |-> a, username |-> u,
                 admin_telegram_id |-> i, event_key |-> k] :
                   a \in ActionTypes, u \in TokenUsernames,
                   i \in TokenAdminIds, k \in TokenEventKeys}

\* create_accounting_keyboard: the callback_data of one button
BuildToken ==
    /\ tok.stage = "fields"
    /\ tok' = [stage |-> "built", fields |-> tok,
               data |-> create_callback_data(tok.action_type, tok.username,
                                             tok.admin_telegram_id,
                                             tok.event_key)]
    /\ UNCHANGED <<settlement_list, user_prices, payments, clock, tasks,
                   out>>
    /\ UNCHANGED webVars

\* handle_accounting_callback: the decoding of callback.data
DecodeToken ==
    /\ tok.stage = "built"
    /\ tok' = [stage |-> "decoded", fields |-> tok.fields,
               data |-> tok.data, parsed |-> parse_callback_data(tok.data)]
    /\ UNCHANGED <<settlement_list, user_prices, payments, clock, tasks,
                   out>>
    /\ UNCHANGED webVars

NextTokens == BuildToken \/ DecodeToken

SpecTokens == InitTokens /\ [][NextTokens]_vars

----------------------------------------------------------------------------
(* src/database.py: the payments table; src/telegram_bot.py: the buttons *)

NoPayment == [present |-> FALSE, payment_status |-> None,
              last_set_by |-> None, last_set_at |-> 0]

\* Database.get_payment_status: the row, or None
get_payment_status(pay, username) ==
    IF username \in DOMAIN pay
    THEN [present |-> TRUE, payment_status |-> pay[username].payment_status,
          last_set_by |-> pay[username].last_set_by,
          last_set_at |-> pay[username].last_set_at]
    ELSE NoPayment

\* Database.set_payment_status: INSERT OR REPLACE, keyed by username
set_payment_status(pay, now, username, status, set_by) ==
    [u \in DOMAIN pay \cup {username} |->
        IF u = username
        THEN [payment_status |-> status, last_set_by |-> set_by,
              last_set_at |-> now]
        ELSE pay[u]]

\* Database.dismiss_payment: INSERT OR REPLACE with 'Dismissed'
\* a dismissal that leaves a Paid row as it is
dismiss_payment_unless_paid(pay, now, username, dismissed_by) ==
    IF get_payment_status(pay, username).payment_status = "Paid" THEN pay
    ELSE set_payment_status(pay, now, username, "Dismissed", dismissed_by)

dismiss_payment(pay, now, username, dismissed_by) ==
    set_payment_status(pay, now, username, "Dismissed", dismissed_by)

handle_payment_status_rolls_back(pay, now, username, status, clicker_id, fault) ==
    LET current_payment == get_payment_status(pay, username)
    IN IF current_payment.present
          /\ current_payment.payment_status = status
       THEN [payments |-> pay, wrote |-> FALSE,
             answer |-> "Already marked"]
       ELSE IF fault = "edit_text"
       THEN [payments |-> pay, wrote |-> FALSE,
             answer |-> "Marked but error updating message"]
       ELSE [payments |-> set_payment_status(pay, now, username, status,
                                             clicker_id),
             wrote |-> TRUE, answer |-> "marked"]

\* TelegramBot.handle_payment_status: the table, whether it was written and
\* the answer to the actor; fault = "edit_text" makes message.edit_text raise
handle_payment_status(pay, now, username, status, clicker_id, fault) ==
    LET current_payment == get_payment_status(pay, username)
    IN IF current_payment.present
          /\ current_payment.payment_status = status
       THEN [payments |-> pay, wrote |-> FALSE,
             answer |-> "Already marked"]
       ELSE [payments |-> set_payment_status(pay, now, username, status,
                                             clicker_id),
             wrote |-> TRUE,
             answer |-> IF fault = "edit_text"
                        THEN "Marked but error updating message"
                        ELSE "marked"]

\* the status of a username: the payment_status of its row, whose values
\* the CHECK of the payments table lists, and "Unknown" without a row
PaymentStates == {"Unknown", "Paid", "Unpaid", "Dismissed"}

PaymentState(pay, username) ==
    IF get_payment_status(pay, username).present
    THEN get_payment_status(pay, username).payment_status
    ELSE "Unknown"

\* the three operations on the payment of a username: the paid and the
\* unpaid button, and dismiss_payment
PaymentOps == {"markPaid", "markUnpaid", "dismiss"}

PaymentOp(op, pay, now, username, by) ==
    CASE op = "markPaid" ->
           handle_payment_status(pay, now, username, "Paid", by,
                                 "none").payments
      [] op = "markUnpaid" ->
           handle_payment_status(pay, now, username, "Unpaid", by,
                                 "none").payments
      [] op = "dismiss" -> dismiss_payment(pay, now, username, by)

\* the tables that up to n operations on the username lead to
RECURSIVE PaymentsAfter(_, _, _, _, _)
PaymentsAfter(n, pay, now, username, by) ==
    IF n = 0 THEN {pay}
    ELSE LET before == PaymentsAfter(n - 1, pay, now, username, by)
         IN before \cup {PaymentOp(op, t, now, username, by) :
                            op \in PaymentOps, t \in before}

\* a call add_to_settlement(*args): the method has four parameters without
\* default (username, admin_telegram_id, price, added_by); any other number
\* of arguments raises TypeError
add_to_settlement_call(rows, now, args) ==
    IF Len(args) # 4 THEN [raised |-> TRUE, rows |-> rows]
    ELSE [raised |-> FALSE,
          rows |-> add_to_settlement(rows, now, args[1], args[2], args[3],
                                     args[4])]

\* TelegramBot.handle_add_settlement: it calls
\* add_to_settlement(username, clicker_id); what follows the call edits and
\* answers (the text of the message is not part of the state)
handle_add_settlement(rows, now, username, clicker_id, fault) ==
    LET r == add_to_settlement_call(rows, now, <<username, clicker_id>>)
    IN IF r.raised
       THEN [raised |-> TRUE, rows |-> rows, wrote |-> FALSE,
             answer |-> None]
       ELSE [raised |-> FALSE, rows |-> r.rows, wrote |-> TRUE,
             answer |-> IF fault = "edit_text"
                        THEN "Added but error updating message"
                        ELSE "Added to settlement list"]

CallbackPrefix == <<"c", "a", "l", "l", "b", "a", "c", "k", "_">>

\* what handle_accounting_callback did: the tables afterwards, whether the
\* outer except ran, the decoded token and the answers given to the actor
Pressed(pay, rows, log, wrote, raised, parsed, answers) ==
    [payments |-> pay, settlement_list |-> rows, audit_log |-> log,
     wrote |-> wrote, raised |-> raised, parsed |-> parsed,
     answers |-> answers]

\* TelegramBot.handle_accounting_callback
handle_accounting_callback(pay, rows, log, now, data, clicker_id, fault) ==
    LET parsed == parse_callback_data(data)
        audited == Append(log,
                     [type |-> CallbackPrefix \o parsed.action_type,
                      username |-> parsed.username,
                      admin_telegram_id |-> parsed.admin_telegram_id,
                      actor_telegram_id |-> clicker_id])
    IN IF parsed.raised
       THEN Pressed(pay, rows, log, FALSE, TRUE, parsed,
                    <<"Processing error">>)
       ELSE IF parsed.action_type \in {ActionPaid, ActionUnpaid}
       THEN LET r == handle_payment_status(pay, now, parsed.username,
                        IF parsed.action_type = ActionPaid
                        THEN "Paid" ELSE "Unpaid",
                        clicker_id, fault)
            IN Pressed(r.payments, rows, audited, r.wrote, FALSE, parsed,
                       <<r.answer>>)
       ELSE IF parsed.action_type = ActionAddSettlement
       THEN LET r == handle_add_settlement(rows, now, parsed.username,
                                           clicker_id, fault)
            IN IF r.raised
               THEN Pressed(pay, rows, log, FALSE, TRUE, parsed,
                            <<"Processing error">>)
               ELSE Pressed(pay, r.rows, audited, r.wrote, FALSE, parsed,
                            <<r.answer>>)
       ELSE Pressed(pay, rows, audited, FALSE, FALSE, parsed, <<>>)

----------------------------------------------------------------------------
(* Button presses *)

MaxPresses == 2        \* audit_log rows per behaviour of button presses

Alice == <<"a", "l", "i", "c", "e">>
Bob == <<"b", "o", "b">>
TokenAdmin == Text("1", 3)
TokenKey == <<"k", "1", "0", "0">>

\* the tokens of the buttons of sent notifications
GoodTokens ==
    {create_callback_data(a, Alice, TokenAdmin, TokenKey) : a \in ActionTypes}
    \cup {create_callback_data(ActionPaid, Bob, TokenAdmin, TokenKey)}

\* callback data with one, three and five fields, and with an action type
\* no button carries
OddTokens ==
    {<<"j", "u", "n", "k">>,
     ActionPaid \o <<":">> \o Alice \o <<":">> \o TokenAdmin,
     JoinFields(ActionPaid, Alice, TokenAdmin, <<"k", ":", "x">>),
     JoinFields(<<"o", "t", "h", "e", "r">>, Alice, TokenAdmin, TokenKey)}

\* the filter of the accounting handler:
\* F.data.startswith(("paid:", "unpaid:", "add_settlement:"))
accounting_filter(data) ==
    \E a \in ActionTypes :
        /\ Len(data) >= Len(a) + 1
        /\ SubSeq(data, 1, Len(a) + 1) = a \o <<":">>

ButtonPresses ==
    {<<d, c, "none">> :
        d \in {t \in GoodTokens \cup OddTokens : accounting_filter(t)},
        c \in Actors}
    \cup {<<create_callback_data(a, Alice, TokenAdmin, TokenKey),
            "900", "edit_text">> : a \in {ActionPaid, ActionUnpaid}}

PressButton(data, clicker_id, fault) ==
    /\ Len(audit_log) < MaxPresses
    /\ clock < MaxClock
    /\ LET r == handle_accounting_callback(payments, settlement_list,
                   audit_log, clock + 1, data, clicker_id, fault)
       IN /\ payments' = r.payments
          /\ settlement_list' = r.settlement_list
          /\ audit_log' = r.audit_log
          /\ clock' = IF r.wrote THEN clock + 1 ELSE clock
          /\ out' = [op |-> "press", data |-> data, clicker_id |-> clicker_id,
                     fault |-> fault, raised |-> r.raised,
                     parsed |-> r.parsed, answers |-> r.answers]
    /\ UNCHANGED <<users_snapshot, sync_status, admin_topics, sent,
                   forum_topics, fallback_chat_id, req, last>>
    /\ UNCHANGED <<user_prices, tasks, tok>>

DismissPayment(username, dismissed_by) ==
    /\ clock < MaxClock
    /\ clock' = clock + 1
    /\ payments' = dismiss_payment(payments, clock + 1, username,
                                   dismissed_by)
    /\ out' = [op |-> "dismiss", username |-> username,
               by |-> dismissed_by]
    /\ UNCHANGED <<settlement_list, user_prices, tasks, tok>>
    /\ UNCHANGED webVars

NextButtons ==
    \/ \E b \in ButtonPresses : PressButton(b[1], b[2], b[3])
    \/ \E by \in Actors : DismissPayment(Alice, by)

SpecButtons == InitLedger /\ [][NextButtons]_vars

----------------------------------------------------------------------------
(* Button presses handled concurrently: the event loop may switch to       *)
(* another press at every await of handle_accounting_callback              *)

PressFaults == {"none", "get_payment_status", "set_payment_status",
                "edit_text", "log_audit"}

\* the presses of a caller: every button and the malformed tokens without a
\* failure, and the paid button of alice with each failure
PressInputs ==
    ({t \in GoodTokens \cup OddTokens : accounting_filter(t)} \X {"none"})
    \cup ({create_callback_data(ActionPaid, Alice, TokenAdmin, TokenKey)}
             \X PressFaults)

\* the actor who presses in call c
ClickerOf(c) == IF c = 1 THEN "111" ELSE "900"

press_except_silent(answers) == answers

\* the except of handle_accounting_callback: callback.answer("Processing
\* error")
press_except(answers) == Append(answers, "Processing error")

\* handle_accounting_callback up to the first await: the token is decoded
\* and the handler of its action is called
PressStart(c, data, fault) ==
    /\ tasks[c].pc = "idle"
    /\ LET parsed == parse_callback_data(data)
       IN tasks' = [tasks EXCEPT ![c] =
            [pc |-> IF parsed.raised THEN "except"
                    ELSE IF parsed.action_type \in {ActionPaid, ActionUnpaid}
                    THEN "lookup"
                    ELSE IF parsed.action_type = ActionAddSettlement
                    THEN "add" ELSE "audit",
             data |-> data, clicker_id |-> ClickerOf(c), fault |-> fault,
             parsed |-> parsed,
             status |-> IF parsed.action_type = ActionPaid THEN "Paid"
                        ELSE "Unpaid",
             answers |-> <<>>, wrote |-> FALSE]]
    /\ UNCHANGED <<settlement_list, user_prices, payments, clock, out, tok>>
    /\ UNCHANGED webVars

\* handle_payment_status: get_payment_status and the test on its result
PressLookup(c) ==
    /\ tasks[c].pc = "lookup"
    /\ LET current_payment ==
               get_payment_status(payments, tasks[c].parsed.username)
       IN tasks' = [tasks EXCEPT ![c] =
            IF tasks[c].fault = "get_payment_status"
            THEN [@ EXCEPT !.pc = "except"]
            ELSE IF current_payment.present
                    /\ current_payment.payment_status = tasks[c].status
            THEN [@ EXCEPT !.pc = "audit",
                           !.answers = Append(@, "Already marked")]
            ELSE [@ EXCEPT !.pc = "write"]]
    /\ UNCHANGED <<settlement_list, user_prices, payments, clock, out, tok>>
    /\ UNCHANGED webVars

\* handle_payment_status: set_payment_status
PressWrite(c) ==
    /\ tasks[c].pc = "write"
    /\ IF tasks[c].fault = "set_payment_status"
       THEN /\ tasks' = [tasks EXCEPT ![c].pc = "except"]
            /\ UNCHANGED <<payments, clock>>
       ELSE /\ payments' = set_payment_status(payments, clock + 1,
                               tasks[c].parsed.username, tasks[c].status,
                               tasks[c].clicker_id)
            /\ clock' = clock + 1
            /\ tasks' = [tasks EXCEPT ![c].pc = "edit", ![c].wrote = TRUE]
    /\ UNCHANGED <<settlement_list, user_prices, out, tok>>
    /\ UNCHANGED webVars

\* handle_payment_status: edit_text and the answer, or the answer of its
\* except
PressEdit(c) ==
    /\ tasks[c].pc = "edit"
    /\ tasks' = [tasks EXCEPT ![c].pc = "audit",
                  ![c].answers =
                      Append(@, IF tasks[c].fault = "edit_text"
                                THEN "Marked but error updating message"
                                ELSE "marked")]
    /\ UNCHANGED <<settlement_list, user_prices, payments, clock, out, tok>>
    /\ UNCHANGED webVars

\* handle_add_settlement
PressAdd(c) ==
    /\ tasks[c].pc = "add"
    /\ LET r == handle_add_settlement(settlement_list, clock + 1,
                    tasks[c].parsed.username, tasks[c].clicker_id,
                    tasks[c].fault)
       IN /\ settlement_list' = r.rows
          /\ clock' = IF r.wrote THEN clock + 1 ELSE clock
          /\ tasks' = [tasks EXCEPT ![c] =
                IF r.raised THEN [@ EXCEPT !.pc = "except"]
                ELSE [@ EXCEPT !.pc = "audit", !.wrote = r.wrote,
                               !.answers = Append(@, r.answer)]]
    /\ UNCHANGED <<user_prices, payments, out, tok>>
    /\ UNCHANGED webVars

\* handle_accounting_callback: log_audit after the handler returned
PressAudit(c) ==
    /\ tasks[c].pc = "audit"
    /\ IF tasks[c].fault = "log_audit"
       THEN /\ tasks' = [tasks EXCEPT ![c].pc = "except"]
            /\ UNCHANGED audit_log
       ELSE /\ audit_log' = Append(audit_log,
                  [type |-> CallbackPrefix \o tasks[c].parsed.action_type,
                   username |-> tasks[c].parsed.username,
                   admin_telegram_id |-> tasks[c].parsed.admin_telegram_id,
                   actor_telegram_id |-> tasks[c].clicker_id])
            /\ tasks' = [tasks EXCEPT ![c].pc = "done"]
    /\ UNCHANGED <<users_snapshot, sync_status, admin_topics, sent,
                   forum_topics, fallback_chat_id, req, last>>
    /\ UNCHANGED <<settlement_list, user_prices, payments, clock, out, tok>>

\* handle_accounting_callback: the except block
PressExcept(c) ==
    /\ tasks[c].pc = "except"
    /\ tasks' = [tasks EXCEPT ![c].pc = "done",
                               ![c].answers = press_except(@)]
    /\ UNCHANGED <<settlement_list, user_prices, payments, clock, out, tok>>
    /\ UNCHANGED webVars

\* the steps of call c after its start
PressStep(c) ==
    \/ PressLookup(c)
    \/ PressWrite(c)
    \/ PressEdit(c)
    \/ PressAdd(c)
    \/ PressAudit(c)
    \/ PressExcept(c)

NextPress ==
    \/ \E c \in Callers, i \in PressInputs : PressStart(c, i[1], i[2])
    \/ \E c \in Callers : PressStep(c)

SpecPress == InitRace /\ [][NextPress]_vars

\* the event loop resumes a handler when the call it awaits has returned
\* or raised
FairSpecPress == SpecPress /\ \A c \in Callers : WF_vars(PressStep(c))

----------------------------------------------------------------------------
(* src/utils.py: the event key as text *)

\* a send_at with a fraction, in tenths: whole + tenths / 10
Float(whole, tenths) == [num |-> TRUE, v |-> whole, tenths |-> tenths]

DecimalDigits == <<"0", "1", "2", "3", "4", "5", "6", "7", "8", "9">>

RECURSIVE str_of_int(_)
\* str(n) of a natural number
str_of_int(n) ==
    IF n < 10 THEN <<DecimalDigits[n + 1]>>
    ELSE str_of_int(n \div 10) \o <<DecimalDigits[(n % 10) + 1]>>

\* the f-string of generate_event_key on the three parts
format_event_key(key) ==
    key.action \o <<"_">> \o key.username \o <<"_">>
        \o str_of_int(key.send_at)

KeyKinds == {<<"c", "r", "e", "a", "t", "e", "d">>,
             <<"u", "p", "d", "a", "t", "e", "d">>}
KeyUsernames == {<<"a">>, <<"a", "_", "1">>, <<"a", "_", "1", "_", "2">>,
                 <<"b", "1">>}
KeySendAts == {Float(1, 0), Float(1, 5), Float(2, 0), Float(12, 0)}

\* what the handlers pass to generate_event_key for an event
KeyEvents ==
    {[kind |-> k, username |-> u, send_at |-> t] :
        k \in KeyKinds, u \in KeyUsernames, t \in KeySendAts}

event_key_of(e) ==
    format_event_key(generate_event_key(e.kind, e.username, e.send_at))

InitKeys ==
    /\ WebInit
    /\ settlement_list = <<>>
    /\ user_prices = <<>>
    /\ payments = <<>>
    /\ clock = 0
    /\ tasks = <<>>
    /\ out = NoOut
    /\ tok \in {[stage |-> "events", first |-> e1, second |-> e2] :
                   e1 \in KeyEvents, e2 \in KeyEvents}

\* the keys of two events
KeyBoth ==
    /\ tok.stage = "events"
    /\ tok' = [stage |-> "keyed", first |-> tok.first,
               second |-> tok.second,
               first_key |-> event_key_of(tok.first),
               second_key |-> event_key_of(tok.second)]
    /\ UNCHANGED <<settlement_list, user_prices, payments, clock, tasks,
                   out>>
    /\ UNCHANGED webVars

NextKeys == KeyBoth

SpecKeys == InitKeys /\ [][NextKeys]_vars

----------------------------------------------------------------------------
(* An event that fails after its snapshot was written, and comes again *)

MaxRetryAudit == 3     \* audit_log rows per behaviour of retried events

\* a creation, and updates that extend the expire by 7 days, that put the
\* user on hold, and that do both; the updates also with a send_at and the
\* creation also with a data_limit that make the message builder raise
RetryEvents ==
    {Event("user_created", "alice", UserBody("active", Ts(0, TRUE), l),
           TheAdmin, Num(100)) : l \in {Limit, None}}
    \cup {Event("user_updated", "alice", UserBody(s, Ts(e, TRUE), Limit),
                TheAdmin, t) :
            s \in {"active", "on_hold"}, e \in {0, 14},
            t \in {Num(100), NotANumber}}

RetryInputs == RetryEvents \X {"none", "create_forum_topic", "send_message"}

\* one iteration of the loop of receive_webhook; out keeps what the
\* iteration before it did and the number of messages sent before this one
ProcessAgain(el, fault) ==
    /\ ProcessElement(el, fault)
    /\ out' = [op |-> "event", el |-> el, before |-> last,
               sent_before |-> Len(sent)]
    /\ UNCHANGED <<settlement_list, user_prices, payments, clock, tasks,
                   tok>>

InitRetry ==
    /\ Init
    /\ fallback_chat_id = ParentChat

NextRetry ==
    \/ ReceiveWebhook(1, MaxRetryAudit)
    \/ \E i \in RetryInputs : ProcessAgain(i[1], i[2])
    \/ enable_sync

SpecRetry == InitRetry /\ [][NextRetry]_vars

----------------------------------------------------------------------------
(* An admin seen for the first time by webhook requests and sync runs that *)
(* run concurrently: the event loop may switch at every await              *)

\* who sees the admin: send_to_admin_topic through auto_register_admin, or
\* the loop of sync_admins_from_api; the admin's name as each of them has
\* it; whether create_forum_topic raises
RegInputs ==
    {[kind |-> k, id |-> "111", name |-> n, fault |-> f] :
        k \in {"webhook", "sync"}, n \in {"adm", "adm2"},
        f \in {"none", "create_forum_topic"}}

\* "existing = await db.get_admin_topic(admin_telegram_id)" and the
\* branches on it
RegLookup(c, i) ==
    /\ tasks[c].pc = "idle"
    /\ LET existing == get_admin_topic(Store, i.id)
       IN tasks' = [tasks EXCEPT ![c] =
            [pc |-> IF existing.present
                    THEN IF existing.admin_username # i.name
                         THEN "rename" ELSE "done"
                    ELSE IF HasChat(fallback_chat_id)
                    THEN "create" ELSE "store",
             kind |-> i.kind, id |-> i.id, name |-> i.name,
             fault |-> i.fault, existing |-> existing,
             topic_id |-> NoThread]]
    /\ UNCHANGED <<settlement_list, user_prices, payments, clock, out, tok>>
    /\ UNCHANGED webVars

\* the set_admin_topic of an admin found under another name
RegRename(c) ==
    /\ tasks[c].pc = "rename"
    /\ Tables(set_admin_topic(Store, tasks[c].id, tasks[c].name,
                              tasks[c].existing.chat_id,
                              tasks[c].existing.topic_id))
    /\ tasks' = [tasks EXCEPT ![c].pc = "done"]
    /\ UNCHANGED <<fallback_chat_id, req, last>>
    /\ UNCHANGED <<settlement_list, user_prices, payments, clock, out, tok>>

\* "topic = await bot.create_forum_topic(...)" and its except
RegCreate(c) ==
    /\ tasks[c].pc = "create"
    /\ IF tasks[c].fault = "create_forum_topic"
       THEN /\ tasks' = [tasks EXCEPT ![c].pc = "store"]
            /\ UNCHANGED forum_topics
       ELSE /\ forum_topics' = forum_topics + 1
            /\ tasks' = [tasks EXCEPT ![c].pc = "store",
                                      ![c].topic_id = Thread(forum_topics + 1)]
    /\ UNCHANGED <<users_snapshot, sync_status, admin_topics, audit_log,
                   sent, fallback_chat_id, req, last>>
    /\ UNCHANGED <<settlement_list, user_prices, payments, clock, out, tok>>

\* "Save admin mapping": set_admin_topic with the topic created, if any
RegStore(c) ==
    /\ tasks[c].pc = "store"
    /\ Tables(set_admin_topic(Store, tasks[c].id, tasks[c].name,
                              IF HasChat(fallback_chat_id)
                              THEN fallback_chat_id ELSE "",
                              tasks[c].topic_id))
    /\ tasks' = [tasks EXCEPT ![c].pc = "done"]
    /\ UNCHANGED <<fallback_chat_id, req, last>>
    /\ UNCHANGED <<settlement_list, user_prices, payments, clock, out, tok>>

InitRegister ==
    /\ users_snapshot = [u \in Usernames |-> NoRow]
    /\ sync_status = [k \in SyncKeys |-> None]
    /\ admin_topics = [a \in AdminIds |-> NoTopic]
    /\ audit_log = <<>>
    /\ sent = <<>>
    /\ forum_topics = 0
    /\ fallback_chat_id \in {None, ParentChat}
    /\ req = NoRequest
    /\ last = NoLast
    /\ settlement_list = <<>>
    /\ user_prices = <<>>
    /\ payments = <<>>
    /\ clock = 0
    /\ tasks = [c \in Callers |-> Idle]
    /\ out = NoOut
    /\ tok = NoToken

NextRegister ==
    \/ \E c \in Callers, i \in RegInputs : RegLookup(c, i)
    \/ \E c \in Callers : RegRename(c)
    \/ \E c \in Callers : RegCreate(c)
    \/ \E c \in Callers : RegStore(c)

SpecRegister == InitRegister /\ [][NextRegister]_vars

----------------------------------------------------------------------------
(* src/api_client.py: the roster, page by page *)

PageLimit == 100       \* limit = 100 in get_all_admins

\* the sizes of the panel's roster; its admins are numbered in the panel's
\* order
RosterSizes == {0, 1, 99, 100, 101, 199, 200, 201, 250}

Min(a, b) == IF a < b THEN a ELSE b

\* the panel's answer to GET /api/admins?offset=..&limit=..: the admins
\* offset+1 .. offset+limit of the roster, and the total unless this answer
\* omits it; no answer (None from _request) when the request fails
get_admins(n, offset, limit, omitted, failed) ==
    IF failed THEN [ok |-> FALSE, admins |-> <<>>, has_total |-> FALSE,
                    total |-> 0]
    ELSE [ok |-> TRUE,
          admins |-> [i \in 1..(Min(offset + limit, n) - Min(offset, n))
                        |-> Min(offset, n) + i],
          has_total |-> ~omitted,
          total |-> n]

\* one round of the loop of get_all_admins on the answer to its request:
\* result.get("total", 0), the two conditions of the break, offset += limit
get_all_admins_round(f, result) ==
    IF ~result.ok
    THEN [f EXCEPT !.stage = "returned",
                   !.requests = Append(f.requests, f.offset)]
    ELSE LET total == IF result.has_total THEN result.total ELSE 0
             done == \/ f.offset + PageLimit >= total
                     \/ Len(result.admins) < PageLimit
         IN [f EXCEPT !.stage = IF done THEN "returned" ELSE "fetching",
                      !.all_admins = f.all_admins \o result.admins,
                      !.requests = Append(f.requests, f.offset),
                      !.offset = IF done THEN f.offset
                                 ELSE f.offset + PageLimit]

\* a call of get_all_admins on a roster of n admins, where the answers to
\* the page requests numbered in omits carry no total and the requests
\* numbered in fails fail
InitPages ==
    /\ WebInit
    /\ settlement_list = <<>>
    /\ user_prices = <<>>
    /\ payments = <<>>
    /\ clock = 0
    /\ tasks = <<>>
    /\ out = NoOut
    /\ tok \in {[stage |-> "fetching", n |-> n, omits |-> o, fails |-> x,
                 all_admins |-> <<>>, offset |-> 0, requests |-> <<>>] :
                   n \in RosterSizes, o \in SUBSET (0..1),
                   x \in {{}, {1}}}

FetchPage ==
    /\ tok.stage = "fetching"
    /\ LET page == Len(tok.requests)
       IN tok' = get_all_admins_round(tok,
                    get_admins(tok.n, tok.offset, PageLimit,
                               page \in tok.omits, page \in tok.fails))
    /\ UNCHANGED <<settlement_list, user_prices, payments, clock, tasks,
                   out>>
    /\ UNCHANGED webVars

NextPages == FetchPage

SpecPages == InitPages /\ [][NextPages]_vars

\* with weak fairness: the call is a coroutine that runs on once each
\* awaited request has been answered
FairSpecPages == SpecPages /\ WF_vars(FetchPage)

----------------------------------------------------------------------------
(* src/api_client.py: one request, its re-authentication and its retry *)

\* the nesting of _request calls at which the interpreter raises
\* RecursionError (sys.getrecursionlimit() frames in CPython)
RecursionLimit == 5

Endpoints == {"/api/admins", "/api/users", "/api/admin"}

\* what the panel answers to the request: a status code, or (0) no answer
\* within the timeout of 30 s, on which httpx raises
Answers == {200, 401, 403, 500, 0}

\* the end of a call: the value returned to the first caller
RequestReturns(f, result) == [f EXCEPT !.stage = "returned", !.result = result]

request_retry_in_place(f) == [f EXCEPT !.stage = "request"]

\* "return await self._request(method, endpoint, **kwargs)" after a
\* successful re-authentication: one more nested call, which finds the new
\* token valid and sends the request again; at the recursion limit the
\* call raises RecursionError, which "except Exception" turns into None
request_retry(f) ==
    IF f.depth + 1 >= RecursionLimit THEN RequestReturns(f, None)
    ELSE [f EXCEPT !.stage = "request", !.depth = f.depth + 1]

\* a call of _request, with or without a valid token at hand
InitRequest ==
    /\ WebInit
    /\ settlement_list = <<>>
    /\ user_prices = <<>>
    /\ payments = <<>>
    /\ clock = 0
    /\ tasks = <<>>
    /\ out = NoOut
    /\ tok \in {[stage |-> "ensure", endpoint |-> e, has_token |-> t,
                 depth |-> 0, requests |-> 0, logins |-> 0,
                 all_401 |-> TRUE, result |-> "pending"] :
                   e \in Endpoints, t \in BOOLEAN}

\* _ensure_token of the first call: a valid token, or _authenticate
EnsureToken(ok) ==
    /\ tok.stage = "ensure"
    /\ tok' = IF tok.has_token THEN [tok EXCEPT !.stage = "request"]
              ELSE IF ok
              THEN [tok EXCEPT !.stage = "request", !.has_token = TRUE,
                               !.logins = @ + 1]
              ELSE RequestReturns([tok EXCEPT !.logins = @ + 1], None)
    /\ UNCHANGED <<settlement_list, user_prices, payments, clock, tasks,
                   out>>
    /\ UNCHANGED webVars

\* client.request and the branches on response.status_code
SendRequest(answer) ==
    /\ tok.stage = "request"
    /\ LET f == [tok EXCEPT !.requests = @ + 1,
                            !.all_401 = @ /\ answer = 401]
       IN tok' = IF answer = 200 THEN RequestReturns(f, "json")
                 ELSE IF answer = 401
                 THEN [f EXCEPT !.stage = "login", !.has_token = FALSE]
                 ELSE RequestReturns(f, None)
    /\ UNCHANGED <<settlement_list, user_prices, payments, clock, tasks,
                   out>>
    /\ UNCHANGED webVars

\* "if await self._authenticate():" after a 401
Reauthenticate(ok) ==
    /\ tok.stage = "login"
    /\ LET f == [tok EXCEPT !.logins = @ + 1, !.has_token = ok]
       IN tok' = IF ok THEN request_retry(f) ELSE RequestReturns(f, None)
    /\ UNCHANGED <<settlement_list, user_prices, payments, clock, tasks,
                   out>>
    /\ UNCHANGED webVars

NextRequest ==
    \/ \E ok \in BOOLEAN : EnsureToken(ok)
    \/ \E answer \in Answers : SendRequest(answer)
    \/ \E ok \in BOOLEAN : Reauthenticate(ok)

SpecRequest == InitRequest /\ [][NextRequest]_vars

\* every awaited HTTP call returns or raises within its timeout of 30 s,
\* and the event loop then resumes the call
FairSpecRequest == SpecRequest /\ WF_vars(NextRequest)

----------------------------------------------------------------------------
(* src/main.py: the backup topic at the start of the process *)

MaxStarts == 3         \* process starts per behaviour

BackupKey == "backup_topic_id"

DigitChars == {"0", "1", "2", "3", "4", "5", "6", "7", "8", "9"}

\* text.lstrip(c)
RECURSIVE lstrip(_, _)
lstrip(text, c) ==
    IF text # <<>> /\ text[1] = c THEN lstrip(Tail(text), c) ELSE text

\* text.isdigit()
isdigit(text) == text # <<>> /\ \A i \in 1..Len(text) : text[i] \in DigitChars

\* os.getenv: a variable that is not set, and one set to a text
NotSet == [set |-> FALSE, text |-> <<>>]
EnvText(text) == [set |-> TRUE, text |-> text]

\* "not chat_id or not chat_id.lstrip('-').isdigit()"
invalid_backup_chat(chat_id) ==
    \/ ~chat_id.set
    \/ chat_id.text = <<>>
    \/ ~isdigit(lstrip(chat_id.text, "-"))

\* the values of FALLBACK_CHAT_ID and of BACKUP_TOPIC_ID at a start
BackupChats == {NotSet, EnvText(<<>>), EnvText(<<"@", "c", "h">>),
                EnvText(<<"-">>), EnvText(<<"-", "1", "0", "0">>)}
ConfiguredTopics == {None, "", "77"}

\* str(topic.message_thread_id) of the n-th topic the chat creates
CreatedTopicIds == <<"501", "502", "503", "504">>

BackupFaults == {"none", "get_sync_status", "set_sync_status",
                 "create_forum_topic", "send_message"}

\* "if value" on a text or None
NonEmpty(v) == v # None /\ v # ""

\* what a start did: the flag store and the number of topics afterwards,
\* the backup topic held in memory, the branch taken, and whether a topic
\* was created and a welcome message sent
Started(flags, topics, memory, path, created, welcomed) ==
    [sync_status |-> flags, forum_topics |-> topics,
     backup_topic_id |-> memory, path |-> path, created |-> created,
     welcomed |-> welcomed]

\* a creation whose id is stored in any case
create_backup_topic_always(flags, topics, chat_id, configured, fault) ==
    IF invalid_backup_chat(chat_id)
    THEN Started(flags, topics, configured, "invalid", FALSE, FALSE)
    ELSE Started([flags EXCEPT ![BackupKey] = CreatedTopicIds[topics + 1]],
                 topics + 1, CreatedTopicIds[topics + 1], "created", TRUE,
                 TRUE)

\* create_backup_topic_if_needed, with telegram_bot.backup_topic_id set
\* from BACKUP_TOPIC_ID before; fault names the call that raises
create_backup_topic_if_needed(flags, topics, chat_id, configured, fault) ==
    IF invalid_backup_chat(chat_id)
    THEN Started(flags, topics, configured, "invalid", FALSE, FALSE)
    ELSE IF fault = "get_sync_status"
    THEN Started(flags, topics, configured, "raised", FALSE, FALSE)
    ELSE IF NonEmpty(flags[BackupKey])
    THEN Started(flags, topics, flags[BackupKey], "existing", FALSE, FALSE)
    ELSE IF NonEmpty(configured)
    THEN IF fault = "set_sync_status"
         THEN Started(flags, topics, configured, "raised", FALSE, FALSE)
         ELSE Started([flags EXCEPT ![BackupKey] = configured], topics,
                      configured, "configured", FALSE, FALSE)
    ELSE IF fault = "create_forum_topic"
    THEN Started(flags, topics, configured, "not created", FALSE, FALSE)
    ELSE LET id == CreatedTopicIds[topics + 1]
         IN IF fault = "set_sync_status"
            THEN Started(flags, topics + 1, id, "not stored", TRUE, FALSE)
            ELSE Started([flags EXCEPT ![BackupKey] = id], topics + 1, id,
                         "created", TRUE, fault # "send_message")

\* the store of a fresh installation; out.lost counts the topics that were
\* created and whose id could not be stored
InitBackup ==
    /\ users_snapshot = [u \in Usernames |-> NoRow]
    /\ sync_status = [k \in SyncKeys \cup {BackupKey} |-> None]
    /\ admin_topics = [a \in AdminIds |-> NoTopic]
    /\ audit_log = <<>>
    /\ sent = <<>>
    /\ forum_topics = 0
    /\ fallback_chat_id = NotSet
    /\ req = NoRequest
    /\ last = NoLast
    /\ settlement_list = <<>>
    /\ user_prices = <<>>
    /\ payments = <<>>
    /\ clock = 0
    /\ tasks = <<>>
    /\ out = [op |-> "none", lost |-> 0]
    /\ tok = NoToken

\* a start of the process: main() reads the environment and calls
\* create_backup_topic_if_needed
Start(chat_id, configured, fault) ==
    /\ clock < MaxStarts
    /\ clock' = clock + 1
    /\ fallback_chat_id' = chat_id
    /\ LET r == create_backup_topic_if_needed(sync_status, forum_topics,
                    chat_id, configured, fault)
       IN /\ sync_status' = r.sync_status
          /\ forum_topics' = r.forum_topics
          /\ sent' = IF r.welcomed
                     THEN Append(sent, [chat_id |-> chat_id.text,
                                        topic_id |-> r.backup_topic_id,
                                        text |-> "Auto Backup Topic"])
                     ELSE sent
          /\ out' = [op |-> "start", chat_id |-> chat_id,
                     configured |-> configured, fault |-> fault,
                     path |-> r.path, created |-> r.created,
                     backup_topic_id |-> r.backup_topic_id,
                     lost |-> IF r.path = "not stored" THEN out.lost + 1
                              ELSE out.lost]
    /\ UNCHANGED <<users_snapshot, admin_topics, audit_log, req, last>>
    /\ UNCHANGED <<settlement_list, user_prices, payments, tasks, tok>>

NextBackup ==
    \E chat_id \in BackupChats, configured \in ConfiguredTopics,
       fault \in BackupFaults : Start(chat_id, configured, fault)

SpecBackup == InitBackup /\ [][NextBackup]_vars

----------------------------------------------------------------------------
(* Vocabulary of the claims *)

\* this step is one iteration of the loop of receive_webhook on a dict;
\* last' then describes that iteration
Handled == req.state = "running" /\ req'.handled = req.handled + 1

\* the stored flag when the step starts; the iteration does not write it
SyncOn == sync_status["initial_sync_complete"] = "true"

RowOf(status, expire) == [present |-> TRUE, status |-> status, expire |-> expire]

\* the whole days in d half days, rounded down
FloorDays(d) == CHOOSE n \in -20..20 : 2 * n <= d /\ d < 2 * (n + 1)

\* trigger (a) of the specification, on the old row and the new expire
ExtensionFires(old, new_expire) ==
    /\ old.expire.kind = "ts"
    /\ new_expire.kind = "ts"
    /\ FloorDays(new_expire.t - old.expire.t) >= 7

ExtensionDays(old, new_expire) == FloorDays(new_expire.t - old.expire.t)

\* the two expires are not one with and one without a UTC offset
ExpireComparable(old, new_expire) ==
    (old.expire.kind = "ts" /\ new_expire.kind = "ts")
    => old.expire.aware = new_expire.aware

\* trigger (b) of the specification
HoldFires(old, new_status) == old.status # "on_hold" /\ new_status = "on_hold"

\* a user_updated event was processed to the end in this step, with the flag
\* "true" and a prior snapshot
UpdatedWithSnapshot ==
    /\ Handled
    /\ last'.action = "user_updated"
    /\ last'.outcome \notin {"rejected", "raised"}
    /\ SyncOn
    /\ users_snapshot[last'.username].present

NothingSent ==
    /\ ~last'.send
    /\ last'.key = NoKey
    /\ ~last'.routed
    /\ sent' = sent
    /\ admin_topics' = admin_topics
    /\ forum_topics' = forum_topics

----------------------------------------------------------------------------
(* Claims *)

\* C1: for a user_updated event processed to the end while the flag is
\* "true" and a prior snapshot exists, the decision is send if and only if
\* the extension trigger (both expires parse, floor days >= 7) or the hold
\* trigger (old status not on_hold, new status on_hold) fires; only the
\* extension gives reason expire_extended_<N>_days with N the floor of the
\* difference, only the hold gives status_to_on_hold, and with neither no
\* message, no key and no delivery is produced.
C1_SendIffTrigger ==
    [][UpdatedWithSnapshot =>
        LET old == users_snapshot[last'.username]
            ext == ExtensionFires(old, last'.expire)
            hold == HoldFires(old, last'.status)
        IN /\ last'.send <=> (ext \/ hold)
           /\ last'.send => /\ last'.key.action = "updated"
                            /\ last'.key.username = last'.username
           /\ (ext /\ ~hold) =>
                 last'.reason = ExpireExtended(ExtensionDays(old, last'.expire))
           /\ (hold /\ ~ext) => last'.reason = StatusToOnHold
           /\ (~ext /\ ~hold) => NothingSent]_vars

C1_Witness ==
    /\ last.action = "user_updated"
    /\ last.outcome = "sent"
    /\ last.reason = ExpireExtended(10)
    /\ Len(sent) > 0

\* C2 as claimed: when both triggers fire for one event, the reason reported
\* is the extension reason.
C2_ExtensionReasonWins ==
    [][UpdatedWithSnapshot =>
        LET old == users_snapshot[last'.username]
        IN (ExtensionFires(old, last'.expire) /\ HoldFires(old, last'.status))
           => last'.reason = ExpireExtended(ExtensionDays(old, last'.expire))]_vars

\* C2 as amended: when both triggers fire for one event, one notification is
\* decided and its one reason is status_to_on_hold: the hold condition is
\* evaluated after the extension condition and overwrites its reason.
C2_HoldReasonWins ==
    [][UpdatedWithSnapshot =>
        LET old == users_snapshot[last'.username]
        IN (ExtensionFires(old, last'.expire) /\ HoldFires(old, last'.status))
           => /\ last'.send
              /\ last'.reason = StatusToOnHold
              /\ Len(sent') <= Len(sent) + 1]_vars

C2_Witness ==
    /\ last.action = "user_updated"
    /\ last.outcome = "sent"
    /\ last.cond_a
    /\ last.cond_b
    /\ last.reason = StatusToOnHold

\* C3: a user_updated event for a username with no snapshot, processed while
\* the flag is "true", sends nothing and registers nothing, whatever it
\* carries, and if it is processed to the end the snapshot is the event's
\* (status, expire).
C3_FirstSightingIsBaseline ==
    [][(/\ Handled
        /\ last'.action = "user_updated"
        /\ last'.outcome # "rejected"
        /\ SyncOn
        /\ ~users_snapshot[last'.username].present)
       => /\ NothingSent
          /\ ~last'.raised =>
                /\ last'.outcome = "baseline"
                /\ users_snapshot'[last'.username]
                     = RowOf(last'.status, last'.expire)]_vars

C3_Witness ==
    /\ last.action = "user_updated"
    /\ last.outcome = "baseline"
    /\ last.status = "on_hold"
    /\ users_snapshot[last.username] = RowOf("on_hold", last.expire)
    /\ sent = <<>>

\* C4: while the flag is not "true" a user_updated event changes no
\* snapshot, creates no admin destination and sends nothing; a user_created
\* event is never stopped by the gate: whatever the flag, it is processed and,
\* unless it raises, the snapshot is the event's.
C4_GateIgnoresUpdatesOnly ==
    [][(Handled /\ last'.outcome # "rejected") =>
        /\ (last'.action = "user_updated" /\ ~SyncOn) =>
              /\ last'.outcome \in {"gated", "raised"}
              /\ users_snapshot' = users_snapshot
              /\ NothingSent
        /\ last'.action = "user_created" =>
              /\ last'.outcome \in {"sent", "raised"}
              /\ ~last'.raised =>
                    users_snapshot'[last'.username]
                      = RowOf(last'.status, last'.expire)]_vars

C4_Witness ==
    /\ last.action = "user_updated"
    /\ last.outcome = "gated"
    /\ sync_status["initial_sync_complete"] = None
    /\ users_snapshot[last.username].present
    /\ users_snapshot[last.username].status # last.status

\* C5 as claimed: every user_created event that passes validation, carries
\* a status and meets no store failure is decided send, overwrites the
\* snapshot and is handed to the router, whatever its optional fields.
C5_CreatedAlwaysRouted ==
    (/\ last.action = "user_created"
     /\ last.outcome # "rejected"
     /\ last.fault = "none"
     /\ last.status # None
     /\ last.trace # <<>>)
    => /\ last.send
       /\ last.routed
       /\ users_snapshot[last.username] = RowOf(last.status, last.expire)

C7_EveryEventAudited ==
    [][(Handled /\ ~last'.raised) =>
        /\ Len(audit_log') = Len(audit_log) + 1
        /\ audit_log'[Len(audit_log')].type = "webhook_received"
        /\ last'.outcome = "rejected" => last'.trace = <<"log_audit">>
        /\ last'.outcome # "rejected" => last'.trace[1] = "log_audit"]_vars

\* C7 as amended: an event missing action, username or user is rejected
\* before the audit append: it gets no audit row and no processing at all.
\* Every other event either raises before any store operation or has its
\* webhook_received row appended first; no snapshot is read or written, no
\* destination created and no notification sent by an event without that row.
C7_AuditBeforeTriage ==
    [][Handled =>
        /\ last'.outcome = "rejected" =>
              /\ last'.trace = <<>>
              /\ audit_log' = audit_log
              /\ users_snapshot' = users_snapshot
              /\ NothingSent
        /\ last'.outcome # "rejected" =>
              \/ /\ last'.raised
                 /\ last'.trace = <<>>
                 /\ audit_log' = audit_log
              \/ /\ last'.trace[1] = "log_audit"
                 /\ Len(audit_log') = Len(audit_log) + 1
                 /\ audit_log'[Len(audit_log')].type = "webhook_received"
                 /\ audit_log'[Len(audit_log')].username = last'.username
                 /\ SubSeq(audit_log', 1, Len(audit_log)) = audit_log
        /\ audit_log' = audit_log =>
              /\ last'.trace = <<>>
              /\ users_snapshot' = users_snapshot
              /\ NothingSent]_vars

C7_Witness ==
    /\ last.dict
    /\ last.outcome = "rejected"
    /\ last.username = None
    /\ last.trace = <<>>
    /\ Len(audit_log) = 1
    /\ req.handled = 1

\* C8 as claimed: a request whose body parsed never ends with elements of the
\* batch left unprocessed after an element that failed.
C8_LaterEventsStillProcessed ==
    (req.state = "done" /\ req.parsed /\ req.handled < req.total)
    => req.handled + 1 = req.total

\* C9 as claimed: the processed figure of the answer is the number of events
\* that were accepted and processed: an event rejected by validation is not
\* counted.
C9_ProcessedCountsAccepted ==
    (req.state = "done" /\ req.http = 200)
    => /\ req.handled = req.total
       /\ req.processed_count = req.accepted

\* C9 as amended: when the request is answered with status ok, total is the
\* number of elements of the batch and processed is the number of events
\* whose processing returned without raising, the events rejected by
\* validation included: two valid events and one without username give
\* processed=3, total=3.
C9_ProcessedCountsReturns ==
    (req.state = "done" /\ req.http = 200)
    => /\ req.handled = req.total
       /\ req.processed_count = req.accepted + req.rejected
       /\ req.processed_count <= req.total

C9_Witness ==
    /\ req.state = "done"
    /\ req.http = 200
    /\ req.total = 3
    /\ req.accepted = 2
    /\ req.rejected = 1
    /\ req.processed_count = 3

\* C10 as claimed: every request whose body parses as JSON is answered with
\* HTTP 200.
C10_ParsedBodyAnswers200 ==
    (req.state = "done" /\ req.parsed) => req.http = 200

\* C11 as claimed: over any sequence of webhook deliveries, send_message is
\* called at most once per event key (action kind, username, send_at).
C11_AtMostOneSendPerKey ==
    \A i, j \in 1..Len(sent) :
        sent[i].event_key = sent[j].event_key => i = j

\* the ids of the active rows of a (username, admin) pair, of an admin
ActiveOfPair(rows, username, admin) ==
    {i \in 1..Len(rows) : /\ rows[i].username = username
                          /\ rows[i].admin_telegram_id = admin
                          /\ rows[i].is_checked_out = 0}

ActiveOfAdmin(rows, admin) ==
    {i \in 1..Len(rows) : /\ rows[i].admin_telegram_id = admin
                          /\ rows[i].is_checked_out = 0}

AddStep == out'.op = "add" /\ clock' = clock + 1

CheckoutStep == out'.op = "checkout" /\ clock' = clock + 1

\* C12: in a sequential series of add, checkout and total calls there is
\* at most one active row per (username, admin); an add while the pair has an
\* active row rewrites that row's price, added_by and added_at and keeps
\* every other row and the row count; an add while it has none (never added,
\* or checked out) appends a new active row and keeps every row there was.
C12_OneActiveRowPerPair ==
    [][/\ \A u \in LedgerUsers, a \in LedgerAdmins :
            Cardinality(ActiveOfPair(settlement_list', u, a)) <= 1
       /\ AddStep =>
            LET act == ActiveOfPair(settlement_list, out'.username, out'.admin)
            IN /\ act # {} =>
                    /\ Len(settlement_list') = Len(settlement_list)
                    /\ \A i \in 1..Len(settlement_list) :
                          settlement_list'[i] =
                             IF i \in act
                             THEN [settlement_list[i] EXCEPT
                                     !.price = out'.price,
                                     !.added_by = out'.by,
                                     !.added_at = clock']
                             ELSE settlement_list[i]
               /\ act = {} =>
                    /\ Len(settlement_list') = Len(settlement_list) + 1
                    /\ SubSeq(settlement_list', 1, Len(settlement_list))
                          = settlement_list
                    /\ settlement_list'[Len(settlement_list')] =
                          SettlementRow(out'.username, out'.admin,
                                        out'.price, out'.by, clock')]_vars

C12_Witness ==
    /\ out.op = "add"
    /\ Len(settlement_list) = 2
    /\ settlement_list[1].username = settlement_list[2].username
    /\ settlement_list[1].admin_telegram_id
         = settlement_list[2].admin_telegram_id
    /\ settlement_list[1].is_checked_out = 1
    /\ settlement_list[1].added_at = 2
    /\ settlement_list[1].added_by = "900"
    /\ settlement_list[2].is_checked_out = 0
    /\ settlement_list[2].added_at = 4

\* C13 as claimed: under every interleaving of concurrent add_to_settlement
\* calls the table never holds two active rows of one (username, admin).
C13_NeverTwoActiveRows ==
    \A u \in LedgerUsers, a \in LedgerAdmins :
        Cardinality(ActiveOfPair(settlement_list, u, a)) <= 1

\* C14: a checkout for an admin flips exactly the rows of that admin that
\* were active, stamping each with the actor and the one timestamp of the
\* call, and returns their number; every other row (another admin's, or one
\* checked out before, with its earlier stamp) is unchanged and no row is
\* added; afterwards the admin has no active row, and a checkout of the same
\* admin directly after a checkout returns 0.
C14_CheckoutFlipsActiveRowsOfAdmin ==
    [][CheckoutStep =>
        LET act == ActiveOfAdmin(settlement_list, out'.admin)
        IN /\ Len(settlement_list') = Len(settlement_list)
           /\ \A i \in 1..Len(settlement_list) :
                 settlement_list'[i] =
                    IF i \in act
                    THEN [settlement_list[i] EXCEPT
                            !.is_checked_out = 1,
                            !.checked_out_at = clock',
                            !.checked_out_by = out'.by]
                    ELSE settlement_list[i]
           /\ out'.rowcount = Cardinality(act)
           /\ ActiveOfAdmin(settlement_list', out'.admin) = {}
           /\ (out.op = "checkout" /\ out.admin = out'.admin)
                 => out'.rowcount = 0]_vars

C14_Witness ==
    /\ out.op = "checkout"
    /\ out.admin = "111"
    /\ out.rowcount = 2
    /\ ActiveOfAdmin(settlement_list, "111") = {}
    /\ ActiveOfAdmin(settlement_list, "222") # {}
    /\ \A i \in 1..Len(settlement_list) :
          settlement_list[i].admin_telegram_id = "111"
             => /\ settlement_list[i].checked_out_by = "900"
                /\ settlement_list[i].checked_out_at = clock

\* the value of a price text that is an integer numeral
PriceValue == ("0" :> 0) @@ ("-5" :> (0 - 5)) @@ ("100" :> 100)
              @@ ("250" :> 250)

\* the effective price of a row: its own, or without one the user's price,
\* or none
EffectivePrice(row) ==
    IF row.price # None THEN row.price
    ELSE IF row.username \in DOMAIN user_prices
         THEN user_prices[row.username]
         ELSE None

HasPositivePrice(row) ==
    /\ EffectivePrice(row) \in DOMAIN PriceValue
    /\ PriceValue[EffectivePrice(row)] > 0

RECURSIVE SumOfPrices(_)
SumOfPrices(ids) ==
    IF ids = {} THEN 0
    ELSE LET i == CHOOSE j \in ids : TRUE
         IN PriceValue[EffectivePrice(settlement_list[i])]
               + SumOfPrices(ids \ {i})

C20_TokenDecodesToItsFields ==
    (/\ tok.stage = "decoded"
     /\ first_colon(tok.fields.username) = 0)
    => /\ ~tok.parsed.raised
       /\ tok.parsed.action_type = tok.fields.action_type
       /\ tok.parsed.username = tok.fields.username
       /\ tok.parsed.admin_telegram_id = tok.fields.admin_telegram_id

\* the field count of callback data: one more than its colons
FieldCount(data) ==
    Cardinality({i \in 1..Len(data) : data[i] = ":"}) + 1

\* the status a decoded press asks for
TargetStatus(parsed) ==
    IF parsed.action_type = ActionPaid THEN "Paid" ELSE "Unpaid"

\* a press whose token decoded to one of the three button actions
DispatchedPress(o) ==
    /\ o.op = "press"
    /\ ~o.parsed.raised
    /\ o.parsed.action_type \in ActionTypes

\* C16: applying markPaid, markUnpaid or dismiss to a user whose payment
\* status already is the target status changes nothing in the payments
\* table, and a pressed button answers "Already marked".
C16_SameStatusChangesNothing ==
    [][ /\ ( /\ out'.op = "press"
             /\ ~out'.parsed.raised
             /\ out'.parsed.action_type \in {ActionPaid, ActionUnpaid}
             /\ get_payment_status(payments, out'.parsed.username)
                    .payment_status = TargetStatus(out'.parsed) )
           => ( /\ payments' = payments
                /\ out'.answers = <<"Already marked">> )
        /\ ( /\ out'.op = "dismiss"
             /\ get_payment_status(payments, out'.username)
                    .payment_status = "Dismissed" )
           => payments' = payments ]_vars

\* C17: after a press of a well-formed add_settlement button there is an
\* active settlement row for the token's username, without price, added by
\* the actor who pressed.
C17_AddSettlementPressCreatesRow ==
    (DispatchedPress(out) /\ out.parsed.action_type = ActionAddSettlement)
    => \E i \in 1..Len(settlement_list) :
          /\ settlement_list[i].username = out.parsed.username
          /\ settlement_list[i].is_checked_out = FALSE
          /\ settlement_list[i].price = None
          /\ settlement_list[i].added_by = out.clicker_id

\* C18: a press whose token decodes to one of the button actions appends
\* exactly one audit row of type callback_<action>, with the token's
\* username and admin id and the pressing actor; a press rejected by the
\* decoder appends none.
C18_OneAuditRowPerDispatchedPress ==
    [][ /\ DispatchedPress(out')
            => audit_log' = Append(audit_log,
                   [type |-> CallbackPrefix \o out'.parsed.action_type,
                    username |-> out'.parsed.username,
                    admin_telegram_id |-> out'.parsed.admin_telegram_id,
                    actor_telegram_id |-> out'.clicker_id])
        /\ (out'.op = "press" /\ out'.parsed.raised)
            => audit_log' = audit_log ]_vars

\* C19: a press whose callback data does not have exactly four fields is
\* rejected by the decoder, and leaves payments, settlement list and audit
\* log as they were.
C19_OtherFieldCountsRejected ==
    [][ (out'.op = "press" /\ FieldCount(out'.data) # 4)
        => /\ out'.parsed.raised
           /\ UNCHANGED <<payments, settlement_list, audit_log>> ]_vars

\* C21: a paid or unpaid press whose message edit fails has committed the
\* payment row (target status, set by the actor, stamped at this press)
\* and keeps it; the press does not fail: the actor gets the notice
\* "Marked but error updating message" and the press is audited.
C21_EditFailureKeepsPayment ==
    [][ ( /\ out'.op = "press"
          /\ out'.fault = "edit_text"
          /\ DispatchedPress(out')
          /\ out'.parsed.action_type \in {ActionPaid, ActionUnpaid}
          /\ get_payment_status(payments, out'.parsed.username)
                 .payment_status # TargetStatus(out'.parsed) )
        => /\ get_payment_status(payments', out'.parsed.username) =
                  [present |-> TRUE,
                   payment_status |-> TargetStatus(out'.parsed),
                   last_set_by |-> out'.clicker_id,
                   last_set_at |-> clock']
           /\ clock' = clock + 1
           /\ ~out'.raised
           /\ out'.answers = <<"Marked but error updating message">>
           /\ Len(audit_log') = Len(audit_log) + 1 ]_vars

\* an unpaid press with a failing edit, on a user marked Paid before
C21_Witness ==
    /\ out.op = "press"
    /\ out.fault = "edit_text"
    /\ out.parsed.action_type = ActionUnpaid
    /\ out.answers = <<"Marked but error updating message">>
    /\ Alice \in DOMAIN payments
    /\ payments[Alice].payment_status = "Unpaid"
    /\ payments[Alice].last_set_at = 2

\* the stored destination of an admin has a chat
StoredChat(row) == row.present /\ HasChat(row.chat_id)

\* the message the router sends for an event
SentFor(ev, chat_id, topic_id, key) ==
    [chat_id |-> chat_id, topic_id |-> topic_id, username |-> ev.username,
     admin_telegram_id |-> ev.by.telegram_id, event_key |-> key]

\* the names the roster gives to the admin id
RosterNames(admins, id) ==
    {admins[k].username :
        k \in {j \in 1..Len(admins) : admins[j].telegram_id = id}}

\* the admin ids of the roster
RosterIds(admins) ==
    {admins[k].telegram_id : k \in 1..Len(admins)} \ {None}

\* C22: when create_forum_topic or send_message raises while an event is
\* routed, the event still completes: nothing is raised to the loop of
\* receive_webhook, the event is counted as processed, and the snapshot
\* written for it stays.
C22_TransportFailureCompletes ==
    [][\A i \in SyncInputs :
         ( /\ ProcessNext(i[1], i[2])
           /\ i[2] \in {"create_forum_topic", "send_message"}
           /\ ~Gated(sync_status["initial_sync_complete"], i[1].action) )
         => /\ ~last'.raised
            /\ last'.outcome = "sent"
            /\ req'.processed_count = req.processed_count + 1
            /\ users_snapshot'[i[1].username]
                 = RowOf(i[1].user.status, i[1].user.expire)
            /\ i[2] = "send_message" => sent' = sent ]_vars

C22_Witness ==
    /\ last.fault = "send_message"
    /\ last.routed
    /\ ~last.raised
    /\ sent = <<>>
    /\ req.processed_count = 1
    /\ users_snapshot["alice"] = RowOf("on_hold", Ts(14, TRUE))

\* C23: an admin destination, once stored, keeps its chat_id and topic_id
\* in every step; its admin_username changes only in a routed event or a
\* sync run that names the admin otherwise, and then to that name; routing
\* an event of a stored admin creates no forum topic, and a sync run
\* creates at most one topic per admin id that was not stored.
C23_StoredDestinationKept ==
    [][\A a \in SyncAdminIds : admin_topics[a].present =>
         /\ admin_topics'[a].present
         /\ admin_topics'[a].chat_id = admin_topics[a].chat_id
         /\ admin_topics'[a].topic_id = admin_topics[a].topic_id
         /\ admin_topics'[a].admin_username # admin_topics[a].admin_username
            => \/ \E i \in SyncInputs :
                    /\ ProcessNext(i[1], i[2])
                    /\ i[1].by.telegram_id = a
                    /\ i[1].by.username = admin_topics'[a].admin_username
               \/ \E run \in RouteSyncRuns :
                    /\ SyncAdmins(run[1], run[2], run[3])
                    /\ admin_topics'[a].admin_username
                          \in RosterNames(run[2], a)
         /\ \A i \in SyncInputs :
              (ProcessNext(i[1], i[2]) /\ i[1].by.telegram_id = a)
              => /\ forum_topics' = forum_topics
                 /\ last'.routed
                    => admin_topics'[a].admin_username = i[1].by.username
         /\ \A run \in RouteSyncRuns :
              SyncAdmins(run[1], run[2], run[3])
              => /\ forum_topics' - forum_topics <=
                      Cardinality({b \in RosterIds(run[2]) :
                                      ~admin_topics[b].present})
                 /\ (out'.completed /\ RosterNames(run[2], a) # {})
                    => admin_topics'[a].admin_username
                          \in RosterNames(run[2], a) ]_vars

\* the admin 111 got its topic under the name adm and was renamed adm2 by
\* a sync run, after an event of its was routed
C23_Witness ==
    /\ out.op = "sync"
    /\ out.updated_admins = 1
    /\ last.routed
    /\ admin_topics["111"].admin_username = "adm2"
    /\ admin_topics["111"].chat_id = ParentChat
    /\ admin_topics["111"].topic_id = Thread(1)
    /\ forum_topics = 1

\* C24: routing an event of an admin without destination stores one: with
\* a parent chat configured and the topic created, the parent chat and the
\* new topic; with create_forum_topic raising, the parent chat and no
\* topic, and the message goes to the parent chat; with no parent chat
\* configured, the empty chat id and no topic, and nothing is sent.
C24_NewAdminAlwaysStored ==
    [][\A i \in SyncInputs :
         ( /\ ProcessNext(i[1], i[2])
           /\ last'.routed
           /\ ~admin_topics[i[1].by.telegram_id].present )
         => LET id == i[1].by.telegram_id
                parent == HasChat(fallback_chat_id)
                failed == i[2] = "create_forum_topic"
            IN /\ admin_topics'[id] =
                    [present |-> TRUE, admin_username |-> i[1].by.username,
                     chat_id |-> IF parent THEN fallback_chat_id ELSE "",
                     topic_id |-> IF parent /\ ~failed
                                  THEN Thread(forum_topics')
                                  ELSE NoThread]
               /\ forum_topics' = IF parent /\ ~failed
                                  THEN forum_topics + 1 ELSE forum_topics
               /\ (parent /\ failed)
                  => sent' = Append(sent, SentFor(i[1], fallback_chat_id,
                                                  NoThread, last'.key))
               /\ ~parent => sent' = sent ]_vars

C24_Witness ==
    /\ last.fault = "create_forum_topic"
    /\ last.routed
    /\ out = NoOut
    /\ admin_topics["111"] =
          [present |-> TRUE, admin_username |-> "adm",
           chat_id |-> ParentChat, topic_id |-> NoThread]
    /\ Len(sent) = 1
    /\ sent[1].chat_id = ParentChat
    /\ sent[1].topic_id = NoThread

\* C25: a routed event whose admin has no stored chat, with no parent chat
\* configured, sends nothing and still completes; a message sent for an
\* admin with a stored chat goes to the stored chat and topic.
C25_NoChatNoSend ==
    [][\A i \in SyncInputs :
         (ProcessNext(i[1], i[2]) /\ last'.routed)
         => LET row == admin_topics[i[1].by.telegram_id]
            IN /\ (~StoredChat(row) /\ ~HasChat(fallback_chat_id))
                  => /\ sent' = sent
                     /\ ~last'.raised
                     /\ req'.processed_count = req.processed_count + 1
               /\ (StoredChat(row) /\ sent' # sent)
                  => sent' = Append(sent, SentFor(i[1], row.chat_id,
                                                  row.topic_id, last'.key))
               /\ (StoredChat(row) /\ i[2] # "send_message")
                  => sent' # sent ]_vars

\* an event routed without parent chat for an admin stored without chat
C25_Witness ==
    /\ last.routed
    /\ ~last.raised
    /\ fallback_chat_id = None
    /\ admin_topics["111"].present
    /\ admin_topics["111"].chat_id = ""
    /\ sent = <<>>
    /\ req.processed_count = 1

\* the stored chat is used although no parent chat is configured any more
C25_WitnessStored ==
    /\ last.routed
    /\ fallback_chat_id = None
    /\ Len(sent) = 2
    /\ sent[2].chat_id = ParentChat
    /\ sent[2].topic_id = Thread(1)

\* C30: a user_updated event is ignored by the gate exactly when the
\* stored flag is not "true" at the step that processes it, whatever the
\* flag was before and wherever in its batch the event stands.
C30_GateReadsStoredFlag ==
    [][(Handled /\ last'.action = "user_updated")
       => /\ last'.outcome = "gated" <=> ~SyncOn
          /\ SyncOn => /\ last'.outcome \in {"baseline", "skipped", "sent"}
                       /\ users_snapshot'[last'.username]
                            = RowOf(last'.status, last'.expire) ]_vars

\* the second event of a batch is ignored, the first was triaged: the flag
\* went from "true" to "false" between the two
C30_Witness ==
    /\ req.total = 2
    /\ req.handled = 2
    /\ Len(audit_log) = 2
    /\ last.action = "user_updated"
    /\ last.outcome = "gated"
    /\ users_snapshot["alice"].present
    /\ ~admin_topics["111"].present
    /\ sync_status["initial_sync_complete"] = "false"

\* the second event of a batch is triaged after a sync run set the flag,
\* the first was ignored
C30_WitnessSync ==
    /\ req.total = 2
    /\ req.handled = 2
    /\ Len(audit_log) = 2
    /\ out.op = "sync"
    /\ last.action = "user_updated"
    /\ last.outcome = "baseline"
    /\ sent = <<>>

\* this step is a sync run on the roster of the run before it; in between
\* nothing wrote the table admin_topics
SecondRun(failing) ==
    /\ out.op = "sync"
    /\ out.completed
    /\ SyncAdmins("ok", out.admins, failing)

\* no admin id stands in the roster under two names
OneNamePerId(admins) ==
    \A a \in RosterIds(admins) : Cardinality(RosterNames(admins, a)) = 1

\* C26 as claimed: a second sync run on the same roster leaves the table
\* admin_topics and the forum topics as they are and reports no topic
\* created and no admin updated.
C26_SecondRunReportsNothing ==
    [][\A f \in TopicFailures : SecondRun(f) =>
         /\ admin_topics' = admin_topics
         /\ forum_topics' = forum_topics
         /\ out'.created_topics = 0
         /\ out'.updated_admins = 0 ]_vars

\* C26: a second sync run on the same roster leaves the table admin_topics
\* and the forum topics as they are and reports no topic created and no
\* error; it reports no admin updated when no admin id stands in the roster
\* under two names.
C26_SecondRunConverges ==
    [][\A f \in TopicFailures : SecondRun(f) =>
         /\ admin_topics' = admin_topics
         /\ forum_topics' = forum_topics
         /\ out'.completed
         /\ out'.created_topics = 0
         /\ out'.errors = 0
         /\ OneNamePerId(out.admins) => out'.updated_admins = 0 ]_vars

\* a run that found both admins of its roster stored and had nothing to do
C26_Witness ==
    /\ out.op = "sync"
    /\ out.completed
    /\ out.admins = <<Adm, Second>>
    /\ out.created_topics = 0
    /\ out.updated_admins = 0
    /\ out.errors = 0
    /\ admin_topics["111"].admin_username = "adm"
    /\ admin_topics["222"].admin_username = "sec"
    /\ forum_topics = 2

\* C27: every sync run that fetched the roster leaves the flag
\* initial_sync_complete "true" and last_sync stamped.
C27_FetchedRunSetsFlag ==
    [][\A run \in SyncRuns :
         (SyncAdmins(run[1], run[2], run[3]) /\ out'.fetched)
         => /\ sync_status'["initial_sync_complete"] = "true"
            /\ sync_status'["last_sync"] = "stamped" ]_vars

\* C28: after a completed sync run the stored admins are those stored
\* before and the admin ids of the roster; an admin id stored by the run has
\* the configured chat (or the empty one) and a topic exactly when one was
\* created for it; created_topics counts the new ids whose topic was
\* created, errors those whose create_forum_topic raised, and no other
\* topic is created.
C28_SyncStoresRosterIds ==
    [][\A run \in SyncRuns :
         (SyncAdmins(run[1], run[2], run[3]) /\ out'.completed)
         => LET parent == HasChat(fallback_chat_id)
                new == {a \in RosterIds(run[2]) : ~admin_topics[a].present}
            IN /\ \A a \in SyncAdminIds :
                    admin_topics'[a].present
                      <=> (admin_topics[a].present
                           \/ a \in RosterIds(run[2]))
               /\ \A a \in new :
                    /\ admin_topics'[a].chat_id
                         = IF parent THEN fallback_chat_id ELSE ""
                    /\ admin_topics'[a].topic_id.some
                         <=> (parent /\ a \notin run[3])
                    /\ admin_topics'[a].admin_username
                         \in RosterNames(run[2], a)
               /\ out'.created_topics =
                    Cardinality({a \in new : parent /\ a \notin run[3]})
               /\ out'.errors =
                    Cardinality({a \in new : parent /\ a \in run[3]})
               /\ forum_topics' = forum_topics + out'.created_topics ]_vars

\* of two new admins one got its topic and the other did not
C28_Witness ==
    /\ out.op = "sync"
    /\ out.completed
    /\ out.admins = <<Adm, Second>>
    /\ out.created_topics = 1
    /\ out.errors = 1
    /\ admin_topics["111"] =
          [present |-> TRUE, admin_username |-> "adm",
           chat_id |-> ParentChat, topic_id |-> NoThread]
    /\ admin_topics["222"].topic_id = Thread(1)

\* the admin without telegram_id left no trace, the other one was stored
C28_WitnessSkipped ==
    /\ out.op = "sync"
    /\ out.completed
    /\ out.admins = <<NoTelegram, Second>>
    /\ out.created_topics = 1
    /\ ~admin_topics["111"].present
    /\ admin_topics["222"].present
    /\ forum_topics = 1

\* C29: the keys of two events are equal if and only if the events agree
\* in action kind, username and send_at.
C29_KeyIdentifiesEvent ==
    tok.stage = "keyed"
    => (tok.first_key = tok.second_key <=> tok.first = tok.second)

\* C34: every token put on a button is at most 64 bytes long on the wire,
\* for every username, admin id and event key, usernames with two-byte
\* characters included.
C34_TokenAtMost64Bytes ==
    tok.stage \in {"built", "decoded"} => ByteLen(tok.data) <= CallbackLimit

\* what the truncation does bound: the number of characters
C34_TokenAtMost64Characters ==
    tok.stage \in {"built", "decoded"} => Len(tok.data) <= CallbackLimit

\* the statuses that sequences of up to MaxOps operations reach from the
\* present table, for a username
MaxOps == 3

StatesWithin(n, username) ==
    {PaymentState(t, username) :
        t \in PaymentsAfter(n, payments, clock + 1, username, "900")}

\* C33 as claimed: the status of a username is always one of the four
\* states, and from its present state every one of the four states is
\* reachable by some sequence of markPaid, markUnpaid and dismiss.
C33_EveryStateFromEveryState ==
    \A u \in {Alice, Bob} :
        /\ PaymentState(payments, u) \in PaymentStates
        /\ StatesWithin(MaxOps, u) = PaymentStates

\* C33, amended: the status is always one of the four states and is
\* Unknown exactly when the username has no row; from every state, each of
\* Paid, Unpaid and Dismissed is reached by one operation; Unknown is
\* reached from no other state, by no sequence of operations (the statuses
\* within MaxOps operations are closed under one more operation).
C33_OverwriteToAnyMarkedState ==
    \A u \in {Alice, Bob} :
        /\ PaymentState(payments, u) \in PaymentStates
        /\ PaymentState(payments, u) = "Unknown" <=> u \notin DOMAIN payments
        /\ {"Paid", "Unpaid", "Dismissed"} \subseteq StatesWithin(1, u)
        /\ StatesWithin(MaxOps + 1, u) = StatesWithin(MaxOps, u)
        /\ "Unknown" \in StatesWithin(MaxOps, u)
              <=> PaymentState(payments, u) = "Unknown"

\* a row that was overwritten at least twice and is now Dismissed, set by
\* the dismissal just made
C33_Witness ==
    /\ out.op = "dismiss"
    /\ PaymentState(payments, Alice) = "Dismissed"
    /\ payments[Alice].last_set_at >= 3

\* the whole roster, each admin once and in the panel's order
WholeRoster(n) == [i \in 1..n |-> i]

\* the requests of a call whose offset lies at or past the end of the roster
PastTheEnd(f) == {i \in 1..Len(f.requests) : f.requests[i] >= f.n /\ f.n > 0}

\* C32: when every page request succeeds, get_all_admins returns the whole
\* roster, each admin once and in order, for every roster size, also when
\* answers omit the total, and requests at most one page past the end.
C32_ReturnsWholeRoster ==
    (tok.stage = "returned" /\ tok.fails \cap (0..(Len(tok.requests) - 1)) = {})
    => /\ tok.all_admins = WholeRoster(tok.n)
       /\ Cardinality(PastTheEnd(tok)) <= 1

\* what holds: the same when no answer omits the total, and in every case
\* the result is a prefix of the roster and no page is requested twice
C32_WholeRosterWhenTotalsPresent ==
    (tok.stage = "returned" /\ tok.fails \cap (0..(Len(tok.requests) - 1)) = {})
    => /\ tok.omits \cap (0..(Len(tok.requests) - 1)) = {}
            => tok.all_admins = WholeRoster(tok.n)
       /\ PastTheEnd(tok) = {}
       /\ tok.all_admins = SubSeq(WholeRoster(tok.n), 1, Len(tok.all_admins))
       /\ \A i \in 1..Len(tok.requests) :
             tok.requests[i] = (i - 1) * PageLimit

\* every call returns
C32_Returns == <>(tok.stage = "returned")

\* C39: a start creates a topic only when the parent chat is valid, no
\* backup topic is stored and none is configured; a stored backup topic is
\* reused and stays as it is whatever is configured; a configured one is
\* stored without creating; with an invalid parent chat nothing is created
\* or stored; so at most one topic is created over all starts, as long as
\* the id of every created topic could be stored.
C39_BackupTopicCreatedOnce ==
    [][ /\ out'.lost = 0 => forum_topics' <= 1
        /\ forum_topics' - forum_topics <= 1
        /\ forum_topics' > forum_topics
              => /\ ~invalid_backup_chat(out'.chat_id)
                 /\ ~NonEmpty(sync_status[BackupKey])
                 /\ ~NonEmpty(out'.configured)
        /\ NonEmpty(sync_status[BackupKey])
              => /\ sync_status' = sync_status
                 /\ forum_topics' = forum_topics
                 /\ ~invalid_backup_chat(out'.chat_id)
                       /\ out'.fault # "get_sync_status"
                       => /\ out'.path = "existing"
                          /\ out'.backup_topic_id = sync_status[BackupKey]
        /\ ( /\ ~NonEmpty(sync_status[BackupKey])
             /\ NonEmpty(out'.configured)
             /\ ~invalid_backup_chat(out'.chat_id)
             /\ out'.fault \notin {"get_sync_status", "set_sync_status"} )
              => /\ sync_status'[BackupKey] = out'.configured
                 /\ forum_topics' = forum_topics
        /\ ( /\ ~NonEmpty(sync_status[BackupKey])
             /\ ~NonEmpty(out'.configured)
             /\ ~invalid_backup_chat(out'.chat_id)
             /\ out'.fault \in {"none", "send_message"} )
              => /\ forum_topics' = forum_topics + 1
                 /\ sync_status'[BackupKey] = CreatedTopicIds[forum_topics']
        /\ invalid_backup_chat(out'.chat_id)
              => /\ sync_status' = sync_status
                 /\ forum_topics' = forum_topics
                 /\ sent' = sent ]_vars

\* a third start that reuses the topic the first start created, although
\* another one is configured by then
C39_Witness ==
    /\ clock = 3
    /\ forum_topics = 1
    /\ out.path = "existing"
    /\ out.configured = "77"
    /\ sync_status[BackupKey] = CreatedTopicIds[1]

\* the store calls of the event handled last include c
Called(l, c) == \E i \in 1..Len(l.trace) : l.trace[i] = c

\* the handler of the event built or routed a notification that did not
\* arrive: the builder raised, or the router was called and sent nothing
NotificationFailed(l, sent_before, sent_after) ==
    /\ Called(l, "save_user_snapshot")
    /\ \/ l.raised
       \/ l.routed /\ sent_after = sent_before

\* the event el is the event whose handling l describes
SameEvent(el, l) ==
    /\ l.dict
    /\ l.action = el.action
    /\ l.username = el.username
    /\ l.status = el.user.status
    /\ l.expire = el.user.expire

\* C37: the handlers write the snapshot before they build and send the
\* notification, and a failure of the build or the delivery leaves the
\* snapshot at the event's state; the same user_updated event handled
\* again right after it (whether its notification failed or arrived)
\* meets no condition and sends nothing.
C37_FailedEventIsNotRetried ==
    out.op = "event" =>
        /\ Called(last, "send_to_admin_topic")
              => last.trace[Len(last.trace) - 1] = "save_user_snapshot"
        /\ NotificationFailed(last, out.sent_before, Len(sent))
              => users_snapshot[last.username]
                   = [present |-> TRUE, status |-> last.status,
                      expire |-> last.expire]
        /\ ( /\ out.el.action = "user_updated"
             /\ SameEvent(out.el, out.before)
             /\ Called(out.before, "save_user_snapshot") )
              => /\ Len(sent) = out.sent_before
                 /\ ~last.send /\ ~last.cond_a /\ ~last.cond_b
                 /\ last.outcome = "skipped"

\* the update that puts alice on hold raised in the message builder, and
\* was handled again
C37_Witness ==
    /\ out.op = "event"
    /\ out.el.action = "user_updated"
    /\ out.el.user.status = "on_hold"
    /\ SameEvent(out.el, out.before)
    /\ out.before.raised
    /\ Called(out.before, "save_user_snapshot")
    /\ last.outcome = "skipped"

\* the same after a delivery that failed in bot.send_message
C37_WitnessDelivery ==
    /\ out.op = "event"
    /\ out.el.action = "user_updated"
    /\ SameEvent(out.el, out.before)
    /\ out.before.routed
    /\ out.before.fault = "send_message"
    /\ sent = <<>>
    /\ last.outcome = "skipped"

\* C31: every press that reached the handler is answered in the end: the
\* call finishes, and with at least one answer to the actor.
C31_EveryPressIsAnswered ==
    \A c \in Callers :
        (tasks[c].pc # "idle")
            ~> (tasks[c].pc = "done" /\ tasks[c].answers # <<>>)

\* a press whose store write failed was answered with the error notice
C31_Witness ==
    /\ tasks[1].pc = "done"
    /\ tasks[1].fault = "set_payment_status"
    /\ tasks[1].answers = <<"Processing error">>
    /\ payments = <<>>

\* the other cases: marked, already marked, a malformed token, a failed
\* edit
C31_WitnessCases ==
    /\ tasks[1].pc = "done" /\ tasks[1].answers = <<"marked">>
    /\ tasks[2].pc = "done" /\ tasks[2].answers = <<"Already marked">>

C31_WitnessMalformed ==
    /\ tasks[1].pc = "done" /\ tasks[1].parsed.raised
    /\ tasks[1].answers = <<"Processing error">>
    /\ tasks[2].pc = "done" /\ tasks[2].fault = "edit_text"
    /\ tasks[2].answers = <<"Marked but error updating message">>

\* call c was a press of the paid or the unpaid button that met no failure
\* and has finished
MarkedBy(c) ==
    /\ tasks[c].pc = "done"
    /\ ~tasks[c].parsed.raised
    /\ tasks[c].parsed.action_type \in {ActionPaid, ActionUnpaid}
    /\ tasks[c].fault = "none"

\* C36: of two presses handled concurrently that set the same status for
\* the same username, exactly one writes the payment and the other answers
\* "Already marked"; the row carries the writer's id and is written once.
C36_OneWriterOfTwoPresses ==
    \A c \in Callers, d \in Callers :
        ( /\ c # d
          /\ MarkedBy(c) /\ MarkedBy(d)
          /\ tasks[c].parsed.username = tasks[d].parsed.username
          /\ tasks[c].status = tasks[d].status )
        => /\ tasks[c].wrote # tasks[d].wrote
           /\ tasks[c].wrote
                 => /\ tasks[d].answers = <<"Already marked">>
                    /\ payments[tasks[c].parsed.username].last_set_by
                          = tasks[c].clicker_id
                    /\ payments[tasks[c].parsed.username].last_set_at = 1

\* what holds: a press that looks the payment up after the other press
\* wrote it answers "Already marked" and writes nothing
C36_LateLookupWritesNothing ==
    [][ \A c \in Callers :
          ( /\ PressLookup(c)
            /\ tasks[c].fault = "none"
            /\ get_payment_status(payments, tasks[c].parsed.username)
                  .payment_status = tasks[c].status )
          => /\ tasks'[c].answers = <<"Already marked">>
             /\ tasks'[c].pc = "audit" ]_vars

\* every call that saw the admin has returned
AllRegistered == \A c \in Callers : tasks[c].pc = "done"

\* C35: however the webhook requests and the sync runs that see admin 111
\* for the first time interleave, create_forum_topic is called for it at
\* most once, and when they have returned the registry holds the topic
\* that was created.
C35_TopicCreatedAtMostOnce ==
    /\ forum_topics <= 1
    /\ (AllRegistered /\ forum_topics >= 1)
          => /\ admin_topics["111"].present
             /\ admin_topics["111"].topic_id = Thread(1)

\* what holds: a call that looks the admin up after another call stored
\* it creates no topic and keeps the stored chat and topic
C35_LateLookupCreatesNothing ==
    [][ \A c \in Callers :
          (tasks[c].pc = "idle" /\ tasks'[c].pc # "idle"
             /\ admin_topics["111"].present)
          => tasks'[c].pc \in {"rename", "done"} ]_vars

C35_RenameKeepsTopic ==
    [][ \A c \in Callers :
          RegRename(c)
          => /\ forum_topics' = forum_topics
             /\ admin_topics'["111"].topic_id = tasks[c].existing.topic_id
             /\ admin_topics'["111"].chat_id = tasks[c].existing.chat_id ]_vars

====
